---- MODULE Spec2Model ----
(***************************************************************************)
(* Verification model of the numerical reconciliation engine of the        *)
(* input-output estimation scripts: the GRAS balancer (GRAS.py), the       *)
(* proportional allocator (SupportFunctions_V3.py) and the product->sector *)
(* conversion (Main_V3.py, Deflaciona_MIPs.py).                            *)
(*                                                                         *)
(* numpy float64 values are modelled as binary floating-point numbers with *)
(* the same structure as IEEE-754 doubles (sign, mantissa, exponent, NaN,  *)
(* +Inf, -Inf, round to nearest) but a mantissa of MantBits bits instead   *)
(* of 53 and an unbounded exponent (no overflow to Inf, no underflow, no   *)
(* negative zero).  A float is a triple <<kind, m, e>>:                    *)
(*   <<"num", m, e>>  the value m * 2^e, with m = 0 /\ e = 0 or            *)
(*                    2^(MantBits-1) <= |m| < 2^MantBits                   *)
(*   <<"inf", 1, 0>>, <<"inf", -1, 0>>   +Inf, -Inf                        *)
(*   <<"nan", 0, 0>>  NaN                                                  *)
(*                                                                         *)
(* Operators evaluate their arguments once: Only({ F(x) : x \in {e} }) binds *)
(* x to the value of e before F is computed.                               *)
(***************************************************************************)
EXTENDS Integers, Sequences, FiniteSets, TLC

\* Width of the mantissa of the modelled floats.
MantBits == 15

Pow2(k) == 2 ^ k

\* The element of a one-element set.
Only(S) == CHOOSE z \in S : TRUE

NaN == <<"nan", 0, 0>>
PInf == <<"inf", 1, 0>>
NInf == <<"inf", -1, 0>>
Zero == <<"num", 0, 0>>

IsNaN(a) == a[1] = "nan"
IsInf(a) == a[1] = "inf"
IsNum(a) == a[1] = "num"

AbsInt(n) == IF n < 0 THEN -n ELSE n
SgnInt(n) == IF n < 0 THEN -1 ELSE IF n > 0 THEN 1 ELSE 0

RECURSIVE BitLen(_)
BitLen(n) == IF n = 0 THEN 0 ELSE 1 + BitLen(n \div 2)

\* Rounding of a * 2^e, a > 0 of l > MantBits bits, to MantBits bits (sign sg).
RoundTo(sg, a, l, e) ==
    Only({ IF q = Pow2(MantBits)
           THEN <<"num", sg * Pow2(MantBits - 1), e + (l - MantBits) + 1>>
           ELSE <<"num", sg * q, e + (l - MantBits)>>
           : q \in {(a + Pow2(l - MantBits - 1)) \div Pow2(l - MantBits)} })

NormLen(m, e, l) ==
    IF l <= MantBits
    THEN <<"num", m * Pow2(MantBits - l), e - (MantBits - l)>>
    ELSE RoundTo(SgnInt(m), AbsInt(m), l, e)

\* The float nearest to m * 2^e (ties away from zero), for |m| < 2^31.
Norm(m, e) ==
    Only({ IF mm = 0 THEN Zero ELSE NormLen(mm, ee, BitLen(AbsInt(mm)))
           : mm \in {m}, ee \in {e} })

\* An integer as a float.
FromInt(n) == Norm(n, 0)
One == <<"num", Pow2(MantBits - 1), 1 - MantBits>>

\* Sign of a float: -1, 0, 1 (0 for NaN).
Sgn(a) == Only({ IF IsNaN(x) THEN 0 ELSE SgnInt(x[2]) : x \in {a} })

FNeg(a) == Only({ IF IsNaN(x) THEN NaN ELSE <<x[1], -x[2], x[3]>> : x \in {a} })
FAbs(a) == Only({ IF IsNaN(x) THEN NaN ELSE <<x[1], AbsInt(x[2]), x[3]>> : x \in {a} })

AddVal(a, b) ==
    IF IsNaN(a) \/ IsNaN(b) THEN NaN
    ELSE IF IsInf(a) THEN (IF IsInf(b) /\ b[2] # a[2] THEN NaN ELSE a)
    ELSE IF IsInf(b) THEN b
    ELSE IF a[2] = 0 THEN b
    ELSE IF b[2] = 0 THEN a
    ELSE IF a[3] >= b[3]
         THEN (IF a[3] - b[3] > MantBits THEN a
               ELSE Norm(a[2] * Pow2(a[3] - b[3]) + b[2], b[3]))
         ELSE (IF b[3] - a[3] > MantBits THEN b
               ELSE Norm(b[2] * Pow2(b[3] - a[3]) + a[2], a[3]))

\* a + b.  Operands more than MantBits binades apart: the smaller is absorbed.
FAdd(a, b) == Only({ AddVal(x, y) : x \in {a}, y \in {b} })

FSub(a, b) == FAdd(a, FNeg(b))

MulVal(a, b) ==
    IF IsNaN(a) \/ IsNaN(b) THEN NaN
    ELSE IF IsInf(a) \/ IsInf(b)
         THEN (IF a[2] = 0 \/ b[2] = 0 THEN NaN
               ELSE IF SgnInt(a[2]) = SgnInt(b[2]) THEN PInf ELSE NInf)
    ELSE Norm(a[2] * b[2], a[3] + b[3])

\* a * b (0 * Inf = NaN)
FMul(a, b) == Only({ MulVal(x, y) : x \in {a}, y \in {b} })

DivVal(a, b) ==
    IF IsNaN(a) \/ IsNaN(b) THEN NaN
    ELSE IF IsInf(a)
         THEN (IF IsInf(b) THEN NaN
               ELSE IF SgnInt(a[2]) * (IF b[2] < 0 THEN -1 ELSE 1) > 0 THEN PInf ELSE NInf)
    ELSE IF IsInf(b) THEN Zero
    ELSE IF b[2] = 0
         THEN (IF a[2] = 0 THEN NaN ELSE IF a[2] > 0 THEN PInf ELSE NInf)
    ELSE IF a[2] = 0 THEN Zero
    ELSE Norm(SgnInt(a[2]) * SgnInt(b[2])
                * ((AbsInt(a[2]) * Pow2(MantBits + 1)) \div AbsInt(b[2])),
              a[3] - b[3] - (MantBits + 1))

\* a / b with numpy's results for a zero divisor: 0/0 = NaN, x/0 = +-Inf.
FDiv(a, b) == Only({ DivVal(x, y) : x \in {a}, y \in {b} })

\* Largest x with x * x <= n, built bit by bit from bit k down.
RECURSIVE ISqrtFrom(_, _, _)
ISqrtFrom(n, x, k) ==
    IF k < 0 THEN x
    ELSE ISqrtFrom(n, IF x + Pow2(k) <= n \div (x + Pow2(k)) THEN x + Pow2(k) ELSE x, k - 1)

ISqrt(n) == Only({ ISqrtFrom(nn, 0, MantBits) : nn \in {n} })

SqrtVal(a) ==
    IF IsNaN(a) THEN NaN
    ELSE IF IsInf(a) THEN (IF a[2] > 0 THEN PInf ELSE NaN)
    ELSE IF a[2] < 0 THEN NaN
    ELSE IF a[2] = 0 THEN Zero
    ELSE IF (a[3] - MantBits) % 2 = 0
         THEN Norm(ISqrt(a[2] * Pow2(MantBits)), (a[3] - MantBits) \div 2)
         ELSE Norm(ISqrt(a[2] * Pow2(MantBits + 1)), (a[3] - MantBits - 1) \div 2)

\* np.sqrt: NaN for a negative argument.
FSqrt(a) == Only({ SqrtVal(x) : x \in {a} })

LtVal(a, b) ==
    IF IsNaN(a) \/ IsNaN(b) THEN FALSE
    ELSE IF IsInf(a) THEN a[2] < 0 /\ b # NInf
    ELSE IF IsInf(b) THEN b[2] > 0
    ELSE Sgn(FSub(a, b)) < 0

\* a < b, a <= b, a = b, a > b as IEEE comparisons (false when either is NaN).
FLt(a, b) == Only({ LtVal(x, y) : x \in {a}, y \in {b} })
FEq(a, b) == Only({ ~IsNaN(x) /\ ~IsNaN(y) /\ x = y : x \in {a}, y \in {b} })
FLe(a, b) == Only({ LtVal(x, y) \/ (~IsNaN(x) /\ ~IsNaN(y) /\ x = y) : x \in {a}, y \in {b} })
FGt(a, b) == FLt(b, a)

\* np.nan_to_num(x, nan=n, posinf=n, neginf=n)
nan_to_num(x, n) == Only({ IF IsNum(y) THEN y ELSE n : y \in {x} })

(***************************************************************************)
(* numpy array operations on vectors (sequences of floats) and matrices    *)
(* (sequences of rows).                                                    *)
(***************************************************************************)
RECURSIVE FSumFrom(_, _, _)
FSumFrom(x, acc, k) ==
    IF k > Len(x) THEN acc ELSE FSumFrom(x, FAdd(acc, x[k]), k + 1)

\* np.sum of a vector, left to right; the sum of no element is 0.
FSum(x) == Only({ IF Len(y) = 0 THEN Zero ELSE FSumFrom(y, y[1], 2) : y \in {x} })

NumRows(m) == Len(m)
NumCols(m) == IF Len(m) = 0 THEN 0 ELSE Len(m[1])

\* m.T
Transpose(m) ==
    Only({ [j \in 1..NumCols(a) |-> [i \in 1..NumRows(a) |-> a[i][j]]] : a \in {m} })

\* m.dot(x) for a matrix m and a vector x: every product enters the sum, so a
\* NaN or Inf in x reaches every entry, also through a zero of m.
dot_mv(m, x) ==
    Only({ [i \in 1..NumRows(a) |-> FSum([k \in 1..Len(y) |-> FMul(a[i][k], y[k])])]
           : a \in {m}, y \in {x} })

\* a.dot(b) for two matrices
dot_mm(a, b) ==
    Only({ [i \in 1..NumRows(p) |-> [j \in 1..NumCols(q) |->
              FSum([k \in 1..NumRows(q) |-> FMul(p[i][k], q[k][j])])]]
           : p \in {a}, q \in {b} })

\* np.diagflat(x)
diagflat(x) ==
    Only({ [i \in 1..Len(y) |-> [j \in 1..Len(y) |-> IF i = j THEN y[i] ELSE Zero]]
           : y \in {x} })

VecNeg(x) == Only({ [i \in 1..Len(y) |-> FNeg(y[i])] : y \in {x} })

MatSub(a, b) ==
    Only({ [i \in 1..NumRows(p) |-> [j \in 1..NumCols(p) |-> FSub(p[i][j], q[i][j])]]
           : p \in {a}, q \in {b} })

\* np.sum(m, axis=1) and np.sum(m, axis=0)
RowSums(m) == Only({ [i \in 1..NumRows(a) |-> FSum(a[i])] : a \in {m} })
ColSums(m) == RowSums(Transpose(m))

\* An integer vector / matrix as floats.
VecFromInt(x) == [i \in 1..Len(x) |-> FromInt(x[i])]
MatFromInt(m) == [i \in 1..Len(m) |-> VecFromInt(m[i])]

\* np.max(np.abs(x)): NaN as soon as one entry is NaN.
RECURSIVE MaxAbsFrom(_, _, _)
MaxAbsFrom(x, acc, k) ==
    IF k > Len(x) THEN acc
    ELSE MaxAbsFrom(x, Only({ IF IsNaN(acc) \/ IsNaN(y) THEN NaN
                              ELSE IF FLt(acc, y) THEN y ELSE acc : y \in {FAbs(x[k])} }),
                    k + 1)

MaxAbs(x) == Only({ MaxAbsFrom(y, FAbs(y[1]), 2) : y \in {x} })

(***************************************************************************)
(* GRAS.py: gras(mA, vRowRestriction, vColRestriction, nEpsilon, nMaxIter) *)
(***************************************************************************)

\* inv_diag(vInput, nNaN=1): 1 / vInput element by element, NaN and +-Inf
\* replaced by 1, on the diagonal of a square matrix.
inv_diag(vInput) ==
    Only({ diagflat([i \in 1..Len(y) |-> nan_to_num(FDiv(One, y[i]), One)]) : y \in {vInput} })

\* mP = np.where(mA > 0, mA, 0)
PosPart(m) ==
    Only({ [i \in 1..NumRows(a) |-> [j \in 1..NumCols(a) |->
              IF FGt(a[i][j], Zero) THEN a[i][j] ELSE Zero]] : a \in {m} })

\* mN = np.where(mA < 0, -mA, 0)
NegPart(m) ==
    Only({ [i \in 1..NumRows(a) |-> [j \in 1..NumCols(a) |->
              IF FLt(a[i][j], Zero) THEN FNeg(a[i][j]) ELSE Zero]] : a \in {m} })

\* np.array([1] * n)
vOnes(n) == [i \in 1..n |-> One]

\* t + np.sqrt(t ** 2 + 4 * px * nx)
QuadRoot(px, nx, t) ==
    [k \in 1..Len(t) |->
        FAdd(t[k], FSqrt(FAdd(FMul(t[k], t[k]), FMul(FMul(FromInt(4), px[k]), nx[k]))))]

\* m = inv_diag(2 * px).dot(t + np.sqrt(t ** 2 + 4 * px * nx))
\* m = np.where(px == 0, -inv_diag(t).dot(nx), m)
MultiplierFrom(px, nx, t) ==
    Only({ [k \in 1..Len(t) |-> IF FEq(px[k], Zero) THEN lin[k] ELSE quad[k]]
           : quad \in {dot_mv(inv_diag([k \in 1..Len(px) |-> FMul(FromInt(2), px[k])]),
                              QuadRoot(px, nx, t))},
             lin \in {VecNeg(dot_mv(inv_diag(t), nx))} })

\* One multiplier update (equations 9a / 9b) for the positive and negative parts
\* p, n seen from the axis being updated, the multipliers x of the other axis
\* and the restriction t of this axis:
\*    px = p.dot(x);  nx = n.dot(inv_diag(x)).dot(ones)
Multiplier(p, n, x, t) ==
    Only({ MultiplierFrom(px, nx, tt)
           : px \in {dot_mv(p, x)},
             nx \in {dot_mv(dot_mm(n, inv_diag(x)), vOnes(Len(x)))},
             tt \in {t} })

\* Column multipliers s from row multipliers r (lines 114-120, 132-137, 166-171).
ColMultiplier(mat, rr, vv) == Multiplier(Transpose(PosPart(mat)), Transpose(NegPart(mat)), rr, vv)

\* Row multipliers r from column multipliers s (lines 123-129, 158-163, 186-191).
RowMultiplier(mat, ss, uu) == Multiplier(PosPart(mat), NegPart(mat), ss, uu)

\* M = np.max(np.abs(s2 - s1))
MaxDif(a, b) == Only({ MaxAbs([k \in 1..Len(x) |-> FSub(x[k], y[k])]) : x \in {a}, y \in {b} })

MatAdd(a, b) ==
    Only({ [i \in 1..NumRows(x) |-> [j \in 1..NumCols(x) |-> FAdd(x[i][j], y[i][j])]]
           : x \in {a}, y \in {b} })

\* The updated matrix with the negative part added instead of subtracted.
UpdatedMatrixAdded(mat, rr, ss) ==
    MatAdd(dot_mm(dot_mm(diagflat(rr), PosPart(mat)), diagflat(ss)),
           dot_mm(dot_mm(inv_diag(rr), NegPart(mat)), inv_diag(ss)))

\* mX = diagflat(r).dot(mP).dot(diagflat(s)) - inv_diag(r).dot(mN).dot(inv_diag(s))
UpdatedMatrix(mat, rr, ss) ==
    MatSub(dot_mm(dot_mm(diagflat(rr), PosPart(mat)), diagflat(ss)),
           dot_mm(dot_mm(inv_diag(rr), NegPart(mat)), inv_diag(ss)))

\* None and a present value, for the entries of a returned tuple.
None == <<>>
Some(x) == <<x>>

VARIABLES
    pc,            \* where the running operation stands
    mA,            \* gras: the matrix to adjust
    u,             \* gras: vRowRestriction.reshape(-1)
    v,             \* gras: vColRestriction.reshape(-1)
    nEpsilon,      \* gras: tolerance on the column multipliers
    nMaxIter,      \* gras: iteration cap
    r,             \* gras: row multipliers
    s1,            \* gras: column multipliers of the previous step
    s2,            \* gras: column multipliers of this step
    M,             \* gras: np.max(np.abs(s2 - s1))
    nIterations,   \* gras: iteration counter
    ret,           \* gras: the returned tuple <<mX, r, s, nIterations>>
    stdout,        \* gras: what the call printed
    run,           \* the caller: 1 for a first call, 2 for a call on gras' own output
    first,         \* the caller: the tuple returned by the first call
    mIntermConsum, \* distribution_matrix_calcul: intermediate consumption
    mDemand,       \* distribution_matrix_calcul: final demand
    mDistribution, \* distribution_matrix_calcul: the returned shares
    mTotalConsum,  \* distribution_matrix_calcul: the returned concatenation
    mAlpha,        \* calculation_margin: distribution matrix
    mMatrixInput,  \* calculation_margin: supply matrix
    nColRef,       \* calculation_margin: column of the supply matrix, from 0
    vRowErase,     \* calculation_margin: <<first, last>> excluded row, from 0
    mMatrixOutput, \* calculation_margin: the returned margin matrix
    mProduction,   \* conversion: production matrix, products x sectors
    mIC,           \* conversion: intermediate consumption at base prices, products x sectors
    vX,            \* conversion: total production by sector
    mD,            \* conversion: market-share matrix, sectors x products
    mBn,           \* conversion: national coefficients, products x sectors
    arr_mA,        \* conversion: technical coefficients, sectors x sectors
    mE,            \* conversion: final demand at base prices, products x demand
    mZ,            \* conversion: intermediate consumption, sectors x sectors
    mY             \* conversion: final demand, sectors x demand

\* pc is, for gras, "call", "while" (line 148) or "returned"; for
\* distribution_matrix_calcul "alloc" or "allocated"; for calculation_margin
\* "margin" or "margined"; for the conversion "convert" or "converted".
grasVars == <<mA, u, v, nEpsilon, nMaxIter, r, s1, s2, M, nIterations, ret, stdout, run, first>>
distVars == <<mIntermConsum, mDemand, mDistribution, mTotalConsum>>
marginVars == <<mAlpha, mMatrixInput, nColRef, vRowErase, mMatrixOutput>>
convVars == <<mProduction, mIC, vX, mD, mBn, arr_mA, mE, mZ, mY>>

VARIABLES
    nYear,                          \* pipeline: the year of the loop
    mProductionTrans,               \* pipeline: production of the year, sectors by products
    mProductionTransLY,             \* pipeline: the same at prices of the year before
    mConsumBasePrice,               \* pipeline: uses at base prices, products by sectors and demand
    mConsumBasePriceLY,             \* pipeline: the same at prices of the year before
    arrConsumBasePrices,            \* pipeline: accumulator [variant][year] of the uses
    arrProductionTrans,             \* pipeline: accumulator [variant][year] of the production
    arr_vX,                         \* pipeline: accumulator of the output by sector
    arr_vX_Prod,                    \* pipeline: accumulator of the output by product
    arr_Demand,                     \* pipeline: accumulator of the demand by column
    arr_VPB,                        \* pipeline: accumulator of the total output
    arrConsumBasePrices_Index,      \* pipeline: chained index [year] of the uses
    arrProductionTrans_Index,       \* pipeline: chained index of the production
    arr_vX_Index,                   \* pipeline: chained index of the output by sector
    arr_vX_Prod_Index,              \* pipeline: chained index of the output by product
    arr_Demand_Index,               \* pipeline: chained index of the demand
    arr_VPB_Index,                  \* pipeline: chained index of the total output
    mConsumBasePrices_Deflator,     \* pipeline: deflator of the uses, by cell
    mProductionTrans_Deflator,      \* pipeline: deflator of the production, by cell
    v_vX_Deflator,                  \* pipeline: deflator of the output by sector
    v_vX_Prod_Deflator,             \* pipeline: deflator of the output by product
    v_Demand_Deflator,              \* pipeline: deflator of the demand
    n_VPB_Deflator,                 \* pipeline: deflator of the total output
    mProductionTransLY_Adjusted,    \* pipeline: production at last year prices, adjusted then balanced
    mConsumBasePriceLY_Adjusted,    \* pipeline: uses at last year prices, adjusted then balanced
    arrConsumBasePrices_Deflated,   \* pipeline: deflated uses [year]
    arrProductionTrans_Deflated,    \* pipeline: deflated production
    arr_vX_Deflated,                \* pipeline: deflated output by sector
    arr_vX_Prod_Deflated,           \* pipeline: deflated output by product
    arr_Demand_Deflated,            \* pipeline: deflated demand
    arr_VPB_Deflated,               \* pipeline: deflated total output
    arr_mLeontief,                  \* pipeline: Leontief matrices [variant][year]
    mLeontief,                      \* Main_V3: the Leontief matrix
    workbook,                       \* the sheets written to the output workbook
    exception                       \* the exception that ended the run, if any

yearVars ==
  <<
    nYear, mProductionTrans, mProductionTransLY, mConsumBasePrice, mConsumBasePriceLY
  >>
accVars ==
  <<
    arrConsumBasePrices, arrProductionTrans, arr_vX, arr_vX_Prod, arr_Demand, arr_VPB
  >>
indexVars ==
  <<
    arrConsumBasePrices_Index, arrProductionTrans_Index, arr_vX_Index,
    arr_vX_Prod_Index, arr_Demand_Index, arr_VPB_Index
  >>
deflatorVars ==
  <<
    mConsumBasePrices_Deflator, mProductionTrans_Deflator, v_vX_Deflator,
    v_vX_Prod_Deflator, v_Demand_Deflator, n_VPB_Deflator, mProductionTransLY_Adjusted,
    mConsumBasePriceLY_Adjusted
  >>
deflatedVars ==
  <<
    arrConsumBasePrices_Deflated, arrProductionTrans_Deflated, arr_vX_Deflated,
    arr_vX_Prod_Deflated, arr_Demand_Deflated, arr_VPB_Deflated
  >>
outVars ==
  <<
    arr_mLeontief, mLeontief, workbook, exception
  >>
pipeVars == <<yearVars, accVars, indexVars, deflatorVars, deflatedVars, outVars>>

VARIABLES
    mArray,            \* disaggregation: the matrix to disaggregate
    vNames,            \* disaggregation: the names of its sectors or products
    vPosDisaggreg,     \* disaggregation: positions to disaggregate, counted from 0
    vMultipliers,      \* disaggregation: the multiplier of each entry
    vNamesDisaggreg,   \* disaggregation: the name of each entry
    nIndex,            \* disaggregation: number of sectors or products before
    nNewIndex,         \* disaggregation: number of sectors or products after
    mNewColumns,       \* disaggregation: outcome of column_sector_disaggregation
    mNewRows,          \* disaggregation: outcome of row_product_disaggregation
    vNewName,          \* disaggregation: outcome of name_disaggregation
    mMIPGeral,         \* gdp: the matrix given to gdp_calculation
    nSector,           \* gdp: the number of sectors
    nDimension,        \* gdp: the dimension of the tables (0 .. 3)
    vGDP,              \* gdp: the returned values
    vNameGDP           \* gdp: the returned names

disVars ==
  <<
    mArray, vNames, vPosDisaggreg, vMultipliers, vNamesDisaggreg, nIndex, nNewIndex,
    mNewColumns, mNewRows, vNewName
  >>
gdpVars == <<mMIPGeral, nSector, nDimension, vGDP, vNameGDP>>
toolVars == <<disVars, gdpVars>>

vars == <<pc, grasVars, distVars, marginVars, convVars, pipeVars, toolVars>>

GrasIdle ==
    /\ mA = <<>> /\ u = <<>> /\ v = <<>> /\ nEpsilon = Zero /\ nMaxIter = 0
    /\ r = <<>> /\ s1 = <<>> /\ s2 = <<>> /\ M = Zero /\ nIterations = 0
    /\ ret = <<>> /\ stdout = "" /\ run = 0 /\ first = <<>>

DistIdle ==
    mIntermConsum = <<>> /\ mDemand = <<>> /\ mDistribution = <<>> /\ mTotalConsum = <<>>

MarginIdle ==
    /\ mAlpha = <<>> /\ mMatrixInput = <<>> /\ nColRef = 0 /\ vRowErase = <<>>
    /\ mMatrixOutput = <<>>

ConvIdle ==
    /\ mProduction = <<>> /\ mIC = <<>> /\ vX = <<>>
    /\ mD = <<>> /\ mBn = <<>> /\ arr_mA = <<>>
    /\ mE = <<>> /\ mZ = <<>> /\ mY = <<>>

DisIdle ==
    /\ mArray = <<>> /\ vNames = <<>> /\ vPosDisaggreg = <<>> /\ vMultipliers = <<>>
    /\ vNamesDisaggreg = <<>> /\ nIndex = 0 /\ nNewIndex = 0
    /\ mNewColumns = <<>> /\ mNewRows = <<>> /\ vNewName = <<>>

GdpIdle ==
    /\ mMIPGeral = <<>> /\ nSector = 0 /\ nDimension = 0 /\ vGDP = <<>> /\ vNameGDP = <<>>

ToolIdle == DisIdle /\ GdpIdle

PipeIdle ==
    /\ nYear = 0 /\ exception = ""
    /\ mProductionTrans = <<>>
    /\ mProductionTransLY = <<>>
    /\ mConsumBasePrice = <<>>
    /\ mConsumBasePriceLY = <<>>
    /\ arrConsumBasePrices = <<>>
    /\ arrProductionTrans = <<>>
    /\ arr_vX = <<>>
    /\ arr_vX_Prod = <<>>
    /\ arr_Demand = <<>>
    /\ arr_VPB = <<>>
    /\ arrConsumBasePrices_Index = <<>>
    /\ arrProductionTrans_Index = <<>>
    /\ arr_vX_Index = <<>>
    /\ arr_vX_Prod_Index = <<>>
    /\ arr_Demand_Index = <<>>
    /\ arr_VPB_Index = <<>>
    /\ mConsumBasePrices_Deflator = <<>>
    /\ mProductionTrans_Deflator = <<>>
    /\ v_vX_Deflator = <<>>
    /\ v_vX_Prod_Deflator = <<>>
    /\ v_Demand_Deflator = <<>>
    /\ n_VPB_Deflator = <<>>
    /\ mProductionTransLY_Adjusted = <<>>
    /\ mConsumBasePriceLY_Adjusted = <<>>
    /\ arrConsumBasePrices_Deflated = <<>>
    /\ arrProductionTrans_Deflated = <<>>
    /\ arr_vX_Deflated = <<>>
    /\ arr_vX_Prod_Deflated = <<>>
    /\ arr_Demand_Deflated = <<>>
    /\ arr_VPB_Deflated = <<>>
    /\ arr_mLeontief = <<>>
    /\ mLeontief = <<>>
    /\ workbook = <<>>

\* Bounds of the input family of gras.
MaxCell == 2
MaxTot == 4
MaxIter == 10
GrasScale == 8

\* The input matrices are 2 x 2: diagonal cells in 0 .. MaxCell, off-diagonal
\* cells in -1 .. 1, every cell multiplied by GrasScale.
GrasDiag == 0..MaxCell
GrasOff == -1..1
GrasMatrices ==
    { <<<<a, b>>, <<c, d>>>> : a \in GrasDiag, b \in GrasOff, c \in GrasOff, d \in GrasDiag }
\* The restrictions have entries MaxTot - 2 or MaxTot, times GrasScale; the
\* one-entry restriction is the one that does not fit a 2 x 2 matrix.
GrasTotals == {MaxTot - 2, MaxTot}
GrasRestrictions == [1..2 -> GrasTotals] \cup {<<MaxTot>>}
\* nEpsilon = 2^-8
GrasEpsilons == {<<"num", Pow2(MantBits - 1), -(MantBits - 1) - 8>>}
GrasMaxIters == {1, MaxIter}

Scaled(k, x) == [i \in 1..Len(x) |-> k * x[i]]

\* The lines printed at lines 58, 66 and 151.
RowMismatchMessage(nRowsU, nRowsMA) ==
    "The vector of row restrictions u (size " \o ToString(nRowsU)
        \o ") doesn't match the number of rows of mA (" \o ToString(nRowsMA) \o ")."
ColMismatchMessage(nColsV, nColsMA) ==
    "The vector of col restrictions v (size " \o ToString(nColsV)
        \o ") doesn't match the number of cols of mA (" \o ToString(nColsMA) \o ")."
NotConvergingMessage(n) ==
    "Matrix is not converging :( (passed " \o ToString(n) \o " iterations)."

\* A caller is about to call gras.
InitGras ==
    /\ \E a \in GrasMatrices, uu \in GrasRestrictions, vv \in GrasRestrictions :
          /\ mA = MatFromInt([i \in 1..2 |-> Scaled(GrasScale, a[i])])
          /\ u = VecFromInt(Scaled(GrasScale, uu))
          /\ v = VecFromInt(Scaled(GrasScale, vv))
    /\ nEpsilon \in GrasEpsilons
    /\ nMaxIter \in GrasMaxIters
    /\ r = <<>> /\ s1 = <<>> /\ s2 = <<>> /\ M = Zero /\ nIterations = 0
    /\ pc = "call" /\ ret = <<>> /\ stdout = "" /\ run = 1 /\ first = <<>>
    /\ DistIdle /\ MarginIdle /\ ConvIdle /\ PipeIdle /\ ToolIdle

\* Lines 54-59: the row restriction does not fit the matrix.
GrasRowMismatch ==
    /\ pc = "call"
    /\ NumRows(mA) # Len(u)
    /\ ret' = <<None, None, None, None>>
    /\ stdout' = RowMismatchMessage(Len(u), NumRows(mA))
    /\ pc' = "returned"
    /\ UNCHANGED <<mA, u, v, nEpsilon, nMaxIter, r, s1, s2, M, nIterations, run, first>>
    /\ UNCHANGED <<distVars, marginVars, convVars, pipeVars, toolVars>>

\* The column check made without the row check before it.
GrasColMismatchUnordered ==
    /\ pc = "call"
    /\ NumCols(mA) # Len(v)
    /\ ret' = <<None, None, None, None>>
    /\ stdout' = ColMismatchMessage(Len(v), NumCols(mA))
    /\ pc' = "returned"
    /\ UNCHANGED <<mA, u, v, nEpsilon, nMaxIter, r, s1, s2, M, nIterations, run, first>>
    /\ UNCHANGED <<distVars, marginVars, convVars, pipeVars, toolVars>>

\* Lines 62-67: the column restriction does not fit the matrix.
GrasColMismatch ==
    /\ pc = "call"
    /\ NumRows(mA) = Len(u)
    /\ NumCols(mA) # Len(v)
    /\ ret' = <<None, None, None, None>>
    /\ stdout' = ColMismatchMessage(Len(v), NumCols(mA))
    /\ pc' = "returned"
    /\ UNCHANGED <<mA, u, v, nEpsilon, nMaxIter, r, s1, s2, M, nIterations, run, first>>
    /\ UNCHANGED <<distVars, marginVars, convVars, pipeVars, toolVars>>

\* Lines 99-146: the first column, row and column updates, from r = 1.
GrasFirstStep ==
    /\ pc = "call"
    /\ NumRows(mA) = Len(u)
    /\ NumCols(mA) = Len(v)
    /\ \E t1 \in {ColMultiplier(mA, vOnes(NumRows(mA)), v)} :
        \E rr \in {RowMultiplier(mA, t1, u)} :
          \E t2 \in {ColMultiplier(mA, rr, v)} :
            /\ s1' = t1
            /\ r' = rr
            /\ s2' = t2
            /\ M' = MaxDif(t2, t1)
    /\ nIterations' = 1
    /\ pc' = "while"
    /\ UNCHANGED <<mA, u, v, nEpsilon, nMaxIter, ret, stdout, run, first>>
    /\ UNCHANGED <<distVars, marginVars, convVars, pipeVars, toolVars>>

\* The cap is reached and the matrix of the last multipliers is handed back.
GrasNotConvergingPartial ==
    /\ pc = "while"
    /\ FGt(M, nEpsilon)
    /\ nIterations = nMaxIter
    /\ ret' = <<Some(UpdatedMatrix(mA, r, s2)), Some(r), Some(s2), Some(nMaxIter)>>
    /\ stdout' = NotConvergingMessage(nMaxIter)
    /\ pc' = "returned"
    /\ UNCHANGED <<mA, u, v, nEpsilon, nMaxIter, r, s1, s2, M, nIterations, run, first>>
    /\ UNCHANGED <<distVars, marginVars, convVars, pipeVars, toolVars>>

\* Lines 148-152: the cap is reached while the multipliers still move.
GrasNotConverging ==
    /\ pc = "while"
    /\ FGt(M, nEpsilon)
    /\ nIterations = nMaxIter
    /\ ret' = <<None, None, None, Some(nMaxIter)>>
    /\ stdout' = NotConvergingMessage(nMaxIter)
    /\ pc' = "returned"
    /\ UNCHANGED <<mA, u, v, nEpsilon, nMaxIter, r, s1, s2, M, nIterations, run, first>>
    /\ UNCHANGED <<distVars, marginVars, convVars, pipeVars, toolVars>>

\* One pass of the loop body, taken without the test on the cap before it.
GrasIterateUncapped ==
    /\ pc = "while"
    /\ FGt(M, nEpsilon)
    /\ s1' = s2
    /\ \E rr \in {RowMultiplier(mA, s2, u)} :
         \E t2 \in {ColMultiplier(mA, rr, v)} :
            /\ r' = rr
            /\ s2' = t2
            /\ M' = MaxDif(t2, s2)
    /\ nIterations' = nIterations + 1
    /\ UNCHANGED <<mA, u, v, nEpsilon, nMaxIter, pc, ret, stdout, run, first>>
    /\ UNCHANGED <<distVars, marginVars, convVars, pipeVars, toolVars>>

\* Lines 148-180: one pass of the loop body.
GrasIterate ==
    /\ pc = "while"
    /\ FGt(M, nEpsilon)
    /\ nIterations # nMaxIter
    /\ s1' = s2
    /\ \E rr \in {RowMultiplier(mA, s2, u)} :
         \E t2 \in {ColMultiplier(mA, rr, v)} :
            /\ r' = rr
            /\ s2' = t2
            /\ M' = MaxDif(t2, s2)
    /\ nIterations' = nIterations + 1
    /\ UNCHANGED <<mA, u, v, nEpsilon, nMaxIter, pc, ret, stdout, run, first>>
    /\ UNCHANGED <<distVars, marginVars, convVars, pipeVars, toolVars>>

\* Lines 182-196: the loop has ended; last row update and the updated matrix.
GrasReturn ==
    /\ pc = "while"
    /\ ~FGt(M, nEpsilon)
    /\ \E rr \in {RowMultiplier(mA, s2, u)} :
         /\ r' = rr
         /\ ret' = <<Some(UpdatedMatrix(mA, rr, s2)), Some(rr), Some(s2), Some(nIterations)>>
    /\ pc' = "returned"
    /\ UNCHANGED <<mA, u, v, nEpsilon, nMaxIter, s1, s2, M, nIterations, stdout, run, first>>
    /\ UNCHANGED <<distVars, marginVars, convVars, pipeVars, toolVars>>

\* The caller runs gras again on the matrix it returned, with the same
\* restrictions, tolerance and cap.
GrasAgain ==
    /\ pc = "returned"
    /\ run = 1
    /\ ret[1] # None
    /\ mA' = ret[1][1]
    /\ first' = ret
    /\ run' = 2
    /\ pc' = "call"
    /\ ret' = <<>>
    /\ stdout' = ""
    /\ r' = <<>> /\ s1' = <<>> /\ s2' = <<>> /\ M' = Zero /\ nIterations' = 0
    /\ UNCHANGED <<u, v, nEpsilon, nMaxIter>>
    /\ UNCHANGED <<distVars, marginVars, convVars, pipeVars, toolVars>>

NextGras ==
    \/ GrasRowMismatch
    \/ GrasColMismatch
    \/ GrasFirstStep
    \/ GrasNotConverging
    \/ GrasIterate
    \/ GrasReturn
    \/ GrasAgain

SpecGras == InitGras /\ [][NextGras]_vars

\* Before the call: gras has no state yet.
InitGrasCaller ==
    /\ pc = "caller"
    /\ GrasIdle /\ DistIdle /\ MarginIdle /\ ConvIdle /\ PipeIdle /\ ToolIdle

\* Line 29: gras is entered with its five arguments.
GrasCall ==
    /\ pc = "caller"
    /\ \E a \in GrasMatrices, uu \in {<<MaxTot, MaxTot>>, <<MaxTot>>},
          vv \in GrasRestrictions :
          /\ mA' = MatFromInt([i \in 1..2 |-> Scaled(GrasScale, a[i])])
          /\ u' = VecFromInt(Scaled(GrasScale, uu))
          /\ v' = VecFromInt(Scaled(GrasScale, vv))
    /\ nEpsilon' \in GrasEpsilons
    /\ nMaxIter' \in GrasMaxIters
    /\ pc' = "call"
    /\ run' = 1
    /\ UNCHANGED <<r, s1, s2, M, nIterations, ret, stdout, first>>
    /\ UNCHANGED <<distVars, marginVars, convVars, pipeVars, toolVars>>

NextGrasCall ==
    \/ GrasCall
    \/ GrasRowMismatch
    \/ GrasColMismatch
    \/ GrasFirstStep
    \/ GrasNotConverging
    \/ GrasIterate
    \/ GrasReturn

\* Control of gras moves on: every step of the function changes its position
\* or its iteration counter, and a step is possible until it has returned.
GrasAdvances ==
    /\ pc # "returned"
    /\ \E p \in {"call", "while", "returned"}, n \in 0..(MaxIter + 1) :
          /\ pc' = p
          /\ nIterations' = n
          /\ <<p, n>> # <<pc, nIterations>>

\* gras is a sequential function: the interpreter runs it without stopping
\* until it returns.
SpecGrasFair ==
    InitGrasCaller /\ [][NextGrasCall]_vars /\ WF_<<pc, nIterations>>(GrasAdvances)

(***************************************************************************)
(* gras as a function of its arguments, for the callers that use its       *)
(* result at once: the same steps as the actions above, run to the return. *)
(* The result is the returned tuple and the line printed, if any.          *)
(***************************************************************************)
GrasResult(tuple, line) == [ret |-> tuple, stdout |-> line]

\* Lines 148-196, entered with the last two column multipliers and the count.
RECURSIVE GrasLoop(_, _, _, _, _, _, _, _)
GrasLoop(mat, uu, vv, eps, maxit, sPrev, sCur, n) ==
    Only({ IF FGt(MaxDif(c, p), eps)
           THEN IF n = maxit
                THEN GrasResult(<<None, None, None, Some(maxit)>>, NotConvergingMessage(maxit))
                ELSE Only({ GrasLoop(mat, uu, vv, eps, maxit, c, ColMultiplier(mat, rr, vv), n + 1)
                            : rr \in {RowMultiplier(mat, c, uu)} })
           ELSE Only({ GrasResult(<<Some(UpdatedMatrix(mat, rr, c)), Some(rr), Some(c), Some(n)>>, "")
                       : rr \in {RowMultiplier(mat, c, uu)} })
           : p \in {sPrev}, c \in {sCur} })

\* Lines 29-146: the shape checks and the first updates.
gras(mat, uu, vv, eps, maxit) ==
    IF NumRows(mat) # Len(uu)
    THEN GrasResult(<<None, None, None, None>>, RowMismatchMessage(Len(uu), NumRows(mat)))
    ELSE IF NumCols(mat) # Len(vv)
    THEN GrasResult(<<None, None, None, None>>, ColMismatchMessage(Len(vv), NumCols(mat)))
    ELSE Only({ Only({ GrasLoop(mat, uu, vv, eps, maxit, t1, ColMultiplier(mat, rr, vv), 1)
                       : rr \in {RowMultiplier(mat, t1, uu)} })
                : t1 \in {ColMultiplier(mat, vOnes(NumRows(mat)), vv)} })

(***************************************************************************)
(* SupportFunctions_V3.py: distribution_matrix_calcul, calculation_margin  *)
(***************************************************************************)

\* np.concatenate((a, b), axis=1)
Concatenate(a, b) == Only({ [i \in 1..NumRows(x) |-> x[i] \o y[i]] : x \in {a}, y \in {b} })

\* The nan_to_num of DivideRows left out.
DivideRowsUnchecked(m, t) ==
    Only({ [i \in 1..NumRows(x) |-> [j \in 1..NumCols(x) |-> FDiv(x[i][j], y[i])]]
           : x \in {m}, y \in {t} })

\* np.nan_to_num(m / t[:, None], nan=0, posinf=0, neginf=0)
DivideRows(m, t) ==
    Only({ [i \in 1..NumRows(x) |-> [j \in 1..NumCols(x) |->
              nan_to_num(FDiv(x[i][j], y[i]), Zero)]] : x \in {m}, y \in {t} })

\* The shares taken over the totals of intermediate consumption alone.
distribution_over_interm(ic, dem) ==
    Only({ <<DivideRows(t, RowSums(ic)), t>> : t \in {Concatenate(ic, dem)} })

\* The pair <<mDistribution, mTotalConsum>> returned by distribution_matrix_calcul.
distribution_matrix_calcul(ic, dem) ==
    Only({ <<DivideRows(t, RowSums(t)), t>> : t \in {Concatenate(ic, dem)} })

\* m[:, k], k counted from 0
Column(m, k) == Only({ [i \in 1..NumRows(x) |-> x[i][k + 1]] : x \in {m} })

\* np.arange(vRowErase[0], vRowErase[1] + 1), as rows counted from 1, in order
EraseRows(range) == [k \in 1..(range[2] - range[1] + 1) |-> range[1] + k]

\* The rows counted from 1 that are not erased, in order (vMarginSectors).
KeptRows(n, erase) ==
    SelectSeq([i \in 1..n |-> i], LAMBDA i : \A k \in 1..Len(erase) : erase[k] # i)

\* x[idx] for a sequence idx of positions
Take(x, idx) == Only({ [k \in 1..Len(ii) |-> y[ii[k]]] : y \in {x}, ii \in {idx} })

\* vCol[:, None] * mAlpha
ScaleRows(vCol, alpha) ==
    Only({ [i \in 1..NumRows(a) |-> [j \in 1..NumCols(a) |-> FMul(c[i], a[i][j])]]
           : c \in {vCol}, a \in {alpha} })

\* The shares without the substitution of the degenerate quotients.
MarginSharesUnchecked(vColErased, nTotMargin) ==
    Only({ [k \in 1..Len(c) |-> FDiv(c[k], t)] : c \in {vColErased}, t \in {nTotMargin} })

\* vMultip = nan_to_num(vCol[vRowErase] / nTotMargin, nan=0, posinf=0, neginf=0)
MarginShares(vColErased, nTotMargin) ==
    Only({ [k \in 1..Len(c) |-> nan_to_num(FDiv(c[k], t), Zero)]
           : c \in {vColErased}, t \in {nTotMargin} })

\* The position of row i in the sequence erase, 0 if it is not in it.
PositionIn(erase, i) ==
    IF \E k \in 1..Len(erase) : erase[k] = i
    THEN CHOOSE k \in 1..Len(erase) : erase[k] = i
    ELSE 0

\* The overwrite with the sign of the shares kept.
OverwriteErasedPlus(out, erase, vMultip, vTotMarginSector) ==
    Only({ [i \in 1..NumRows(o) |->
              IF PositionIn(e, i) = 0 THEN o[i]
              ELSE [j \in 1..NumCols(o) |-> FMul(m[PositionIn(e, i)], t[j])]]
           : o \in {out}, e \in {erase}, m \in {vMultip}, t \in {vTotMarginSector} })

\* mMatrixOutput[vRowErase, :] = -vMultip[:, None] * vTotMarginSector[None, :]
OverwriteErased(out, erase, vMultip, vTotMarginSector) ==
    Only({ [i \in 1..NumRows(o) |->
              IF PositionIn(e, i) = 0 THEN o[i]
              ELSE [j \in 1..NumCols(o) |-> FMul(FNeg(m[PositionIn(e, i)]), t[j])]]
           : o \in {out}, e \in {erase}, m \in {vMultip}, t \in {vTotMarginSector} })

\* vTotMarginSector = np.sum(mMatrixOutput[vMarginSectors, :], axis=0)
KeptColumnSums(out, kept) ==
    Only({ [j \in 1..NumCols(o) |-> FSum([k \in 1..Len(kk) |-> o[kk[k]][j]])]
           : o \in {out}, kk \in {kept} })

\* The matrix returned by calculation_margin.
calculation_margin(alpha, supply, col, range) ==
    Only({ OverwriteErased(out, erase,
                           MarginShares(Take(vCol, erase), FSum(Take(vCol, erase))),
                           KeptColumnSums(out, KeptRows(Len(vCol), erase)))
           : out \in {ScaleRows(Column(supply, col), alpha)},
             vCol \in {Column(supply, col)},
             erase \in {EraseRows(range)} })

\* Bound of the flows given to distribution_matrix_calcul.
MaxFlow == 2

\* Flows are monetary and may be negative: cells in -1 .. MaxFlow.
FlowCells == -1..MaxFlow

\* A caller is about to call distribution_matrix_calcul on two products, two
\* sectors and one column of final demand.
InitDist ==
    /\ pc = "alloc"
    /\ \E ic \in [1..2 -> [1..2 -> FlowCells]], dem \in [1..2 -> [1..1 -> FlowCells]] :
          /\ mIntermConsum = MatFromInt(ic)
          /\ mDemand = MatFromInt(dem)
    /\ mDistribution = <<>> /\ mTotalConsum = <<>>
    /\ GrasIdle /\ MarginIdle /\ ConvIdle /\ PipeIdle /\ ToolIdle

\* Lines 92-118: the call of distribution_matrix_calcul.
CallDistribution ==
    /\ pc = "alloc"
    /\ \E t \in {distribution_matrix_calcul(mIntermConsum, mDemand)} :
          /\ mDistribution' = t[1]
          /\ mTotalConsum' = t[2]
    /\ pc' = "allocated"
    /\ UNCHANGED <<mIntermConsum, mDemand>>
    /\ UNCHANGED <<grasVars, marginVars, convVars, pipeVars, toolVars>>

NextDist == CallDistribution

SpecDist == InitDist /\ [][NextDist]_vars

\* Bound of the margins of the supply matrix: cells in -MaxMargin .. 1.
MaxMargin == 2

\* Rows of the flows behind the distribution matrices given to calculation_margin.
AlphaFlowRows == {<<0, 0>>, <<1, 0>>, <<0, MaxFlow>>, <<1, MaxFlow>>}
MarginAlphas ==
    { distribution_matrix_calcul(MatFromInt([i \in 1..3 |-> <<f[i][1]>>]),
                                 MatFromInt([i \in 1..3 |-> <<f[i][2]>>]))[1]
      : f \in [1..3 -> AlphaFlowRows] }
\* Rows of the supply matrix: a margin c in column 0 and -c - 1 in column 1, so
\* that each column runs over every vector of margins.
SupplyRows == { <<c, -c - 1>> : c \in -MaxMargin..1 }
\* The excluded ranges <<first, last>>, rows counted from 0.
EraseRanges == {<<0, 0>>, <<0, 1>>, <<1, 2>>}

\* A caller is about to call calculation_margin on three products.
InitMargin ==
    /\ pc = "margin"
    /\ mAlpha \in MarginAlphas
    /\ \E supply \in [1..3 -> SupplyRows] : mMatrixInput = MatFromInt(supply)
    /\ nColRef \in {0, 1}
    /\ vRowErase \in EraseRanges
    /\ mMatrixOutput = <<>>
    /\ GrasIdle /\ DistIdle /\ ConvIdle /\ PipeIdle /\ ToolIdle

\* Lines 121-162: the call of calculation_margin.
CallMargin ==
    /\ pc = "margin"
    /\ mMatrixOutput' = calculation_margin(mAlpha, mMatrixInput, nColRef, vRowErase)
    /\ pc' = "margined"
    /\ UNCHANGED <<mAlpha, mMatrixInput, nColRef, vRowErase>>
    /\ UNCHANGED <<grasVars, distVars, convVars, pipeVars, toolVars>>

NextMargin == CallMargin

SpecMargin == InitMargin /\ [][NextMargin]_vars

(***************************************************************************)
(* Main_V3.py lines 353-388, Deflaciona_MIPs.py lines 297-298 and 520-549: *)
(* the conversion to sector x sector.                                      *)
(***************************************************************************)

\* The nan_to_num of DivideColumns left out.
DivideColumnsUnchecked(m, t) ==
    Only({ [i \in 1..NumRows(x) |-> [j \in 1..NumCols(x) |-> FDiv(x[i][j], y[j])]]
           : x \in {m}, y \in {t} })

\* np.nan_to_num(m / t[None, :], nan=0, posinf=0, neginf=0)
DivideColumns(m, t) ==
    Only({ [i \in 1..NumRows(x) |-> [j \in 1..NumCols(x) |->
              nan_to_num(FDiv(x[i][j], y[j]), Zero)]] : x \in {m}, y \in {t} })

\* a / b, a * b cell by cell, for vectors and matrices.
VecDiv(a, b) == Only({ [k \in 1..Len(x) |-> FDiv(x[k], y[k])] : x \in {a}, y \in {b} })
VecMul(a, b) == Only({ [k \in 1..Len(x) |-> FMul(x[k], y[k])] : x \in {a}, y \in {b} })
MatDiv(a, b) == Only({ [i \in 1..NumRows(x) |-> VecDiv(x[i], y[i])] : x \in {a}, y \in {b} })
MatMul(a, b) == Only({ [i \in 1..NumRows(x) |-> VecMul(x[i], y[i])] : x \in {a}, y \in {b} })

\* m * t[:, None]: the lines of m scaled, not its columns.
ScaleLines(m, t) ==
    Only({ [i \in 1..NumRows(x) |-> [j \in 1..NumCols(x) |-> FMul(x[i][j], y[i])]]
           : x \in {m}, y \in {t} })

\* m * t[None, :]
ScaleColumns(m, t) ==
    Only({ [i \in 1..NumRows(x) |-> VecMul(x[i], y)] : x \in {m}, y \in {t} })

\* mD: the transposed production matrix over the totals by product.
MarketShares(prod) == Only({ DivideColumns(t, ColSums(t)) : t \in {Transpose(prod)} })

\* Bound of the inputs of the conversion: production cells in 0 .. MaxProd,
\* consumption cells 0 or 1, total production of a sector 0 or MaxProd + 1.
MaxProd == 2

\* A caller holds a production matrix and the intermediate consumption at
\* base prices of two products and two sectors, and (Main_V3.py) the total
\* production row of the added-value table.
InitConv ==
    /\ pc = "convert"
    /\ \E prod \in [1..2 -> [1..2 -> 0..MaxProd]] : mProduction = MatFromInt(prod)
    /\ \E ic \in [1..2 -> [1..2 -> {0, 1}]] : mIC = MatFromInt(ic)
    /\ \E x \in [1..2 -> {0, MaxProd + 1}] : vX = VecFromInt(x)
    /\ \E e \in [1..2 -> [1..1 -> {0, 1}]] : mE = MatFromInt(e)
    /\ mD = <<>> /\ mBn = <<>> /\ arr_mA = <<>> /\ mZ = <<>> /\ mY = <<>>
    /\ GrasIdle /\ DistIdle /\ MarginIdle /\ PipeIdle /\ ToolIdle

\* Main_V3.py lines 353-400: vX is the total production row of the added-value
\* table; mZ = mA * vX[None, :] and mY = np.dot(mD, mE).
ConvertMain ==
    /\ pc = "convert"
    /\ \E d \in {MarketShares(mProduction)}, b \in {DivideColumns(mIC, vX)} :
         \E a \in {dot_mm(d, b)} :
            /\ mD' = d
            /\ mBn' = b
            /\ arr_mA' = a
            /\ mZ' = ScaleColumns(a, vX)
            /\ mY' = dot_mm(d, mE)
    /\ pc' = "converted"
    /\ UNCHANGED <<mProduction, mIC, vX, mE>>
    /\ UNCHANGED <<grasVars, distVars, marginVars, pipeVars, toolVars>>

\* Deflaciona_MIPs.py lines 297, 520-566: vX is np.sum(mProduction, axis=0);
\* arr_mZ = arr_mA * arr_vX[:, :, None, :] and arr_mY is np.dot(arr_mD, arr_mE).
ConvertDeflaciona ==
    /\ pc = "convert"
    /\ \E x \in {ColSums(mProduction)} :
         \E d \in {MarketShares(mProduction)}, b \in {DivideColumns(mIC, x)} :
          \E a \in {dot_mm(d, b)} :
            /\ vX' = x
            /\ mD' = d
            /\ mBn' = b
            /\ arr_mA' = a
            /\ mZ' = ScaleColumns(a, x)
            /\ mY' = dot_mm(d, mE)
    /\ pc' = "converted"
    /\ UNCHANGED <<mProduction, mIC, mE>>
    /\ UNCHANGED <<grasVars, distVars, marginVars, pipeVars, toolVars>>

NextConv ==
    \/ ConvertMain
    \/ ConvertDeflaciona

SpecConv == InitConv /\ [][NextConv]_vars

(***************************************************************************)
(* The Leontief step: np.linalg.inv(mI - mA), Main_V3.py lines 402-404 and *)
(* Deflaciona_MIPs.py lines 568-578, and the workbook written after it.    *)
(* np.linalg.inv solves (mI - mA) X = I by LU factorisation with partial   *)
(* pivoting and raises LinAlgError when a pivot is exactly zero.  The      *)
(* matrices of the model have two sectors.                                 *)
(***************************************************************************)
\* np.eye(n)
eye(n) == [i \in 1..n |-> [j \in 1..n |-> IF i = j THEN One ELSE Zero]]

\* Back substitution for one right-hand side b, after the factorisation
\* <<u11, u12, l, u22>> with the rows exchanged or not.
SolveColumn(f, swap, b) ==
    Only({ Only({ <<FDiv(FSub(y[1], FMul(f[2], x2)), f[1]), x2>>
                  : x2 \in {FDiv(y[2], f[4])} })
           : y \in { Only({ <<c[1], FSub(c[2], FMul(f[3], c[1]))>>
                            : c \in {IF swap THEN <<b[2], b[1]>> ELSE b} }) } })

\* np.linalg.inv of a 2 x 2 matrix: None when it raises LinAlgError.  The
\* multiplier of the elimination is the quotient by the pivot or the product
\* by its reciprocal, as the LAPACK build has it (recip).
linalg_inv(m, recip) ==
    Only({ IF \E i \in 1..2 : \E j \in 1..2 : ~IsNum(x[i][j])
           THEN Some([i \in 1..2 |-> [j \in 1..2 |-> NaN]])
           ELSE Only({ IF FEq(p[1][1], Zero)
                       THEN None
                       ELSE Only({ Only({ IF FEq(u22, Zero)
                                          THEN None
                                          ELSE Only({ Some([i \in 1..2 |-> [j \in 1..2 |-> cols[j][i]]])
                                                      : cols \in {[k \in 1..2 |->
                                                          SolveColumn(<<p[1][1], p[1][2], l, u22>>,
                                                                      p # x, eye(2)[k])]} })
                                          : u22 \in {FSub(p[2][2], FMul(l, p[1][2]))} })
                                   : l \in {IF recip THEN FMul(p[2][1], FDiv(One, p[1][1]))
                                                     ELSE FDiv(p[2][1], p[1][1])} })
                       : p \in {IF FLt(FAbs(x[1][1]), FAbs(x[2][1])) THEN <<x[2], x[1]>> ELSE x} })
           : x \in {m} })

\* Bound of the inputs of the Leontief step: a diagonal production of
\* LeontiefScale by sector, consumption cells odd or at the ends of
\* 0 .. LeontiefScale.
LeontiefScale == 16
LeontiefCells == {k \in 0..LeontiefScale : k % 2 = 1 \/ k \in {0, LeontiefScale}}

\* A script holds the production and the intermediate consumption of a year.
InitLeontief ==
    /\ pc = "convert"
    /\ mProduction = MatFromInt(<<<<LeontiefScale, 0>>, <<0, LeontiefScale>>>>)
    /\ \E ic \in [1..2 -> [1..2 -> LeontiefCells]] : mIC = MatFromInt(ic)
    /\ vX = VecFromInt(<<LeontiefScale, LeontiefScale>>)
    /\ mE = MatFromInt(<<<<1>>, <<1>>>>)
    /\ mD = <<>> /\ mBn = <<>> /\ arr_mA = <<>> /\ mZ = <<>> /\ mY = <<>>
    /\ GrasIdle /\ DistIdle /\ MarginIdle /\ PipeIdle /\ ToolIdle

\* Main_V3.py line 404, Deflaciona_MIPs.py line 578 for one year and variant:
\* the inverse is stored, or the uncaught LinAlgError ends the run.
InvertLeontief ==
    /\ pc = "converted"
    /\ \E recip \in BOOLEAN :
         \E inv \in {linalg_inv(MatSub(eye(NumRows(arr_mA)), arr_mA), recip)} :
            IF inv = None
            THEN /\ pc' = "raised"
                 /\ exception' = "LinAlgError"
                 /\ UNCHANGED mLeontief
            ELSE /\ pc' = "inverted"
                 /\ mLeontief' = inv[1]
                 /\ UNCHANGED exception
    /\ UNCHANGED <<workbook, arr_mLeontief>>
    /\ UNCHANGED <<grasVars, distVars, marginVars, convVars, toolVars>>
    /\ UNCHANGED <<yearVars, accVars, indexVars, deflatorVars, deflatedVars>>

\* Main_V3.py lines 481-531, Deflaciona_MIPs.py lines 596-642: the workbook
\* is written once the matrices are there.
WriteWorkbook ==
    /\ pc = "inverted"
    /\ workbook' = <<arr_mA, mLeontief>>
    /\ pc' = "written"
    /\ UNCHANGED <<arr_mLeontief, mLeontief, exception>>
    /\ UNCHANGED <<grasVars, distVars, marginVars, convVars, toolVars>>
    /\ UNCHANGED <<yearVars, accVars, indexVars, deflatorVars, deflatedVars>>

NextLeontief ==
    \/ ConvertMain
    \/ ConvertDeflaciona
    \/ InvertLeontief
    \/ WriteWorkbook

SpecLeontief == InitLeontief /\ [][NextLeontief]_vars

(***************************************************************************)
(* The deflation pipeline, Deflaciona_MIPs.py: the loop over the years     *)
(* (lines 122-435), the double deflation (441-514), the conversion to      *)
(* sectors (520-566), the Leontief step (568-578) and the workbook         *)
(* (596-642).  The model has two sectors, two products and one column of   *)
(* final demand; the tables of a year, which lines 122-290 read and net of *)
(* margins and taxes, are the inputs.                                      *)
(***************************************************************************)
nFirstYear == 2010
nSectors == 2
nProducts == 2
nColsDemand == 1

\* Bound: the number of years of lYears.
NumYears == 3
nLastYear == nFirstYear + NumYears - 1
lYears == nFirstYear..nLastYear

\* The substitution made whatever the deflator.
MarkdownAlways(deflator, markdown, observed) == markdown

\* np.where(np.isinf(deflator) | (deflator == 0), markdown, observed)
MarkdownWhere(deflator, markdown, observed) ==
    Only({ [i \in 1..NumRows(d) |-> [j \in 1..NumCols(d) |->
              IF IsInf(d[i][j]) \/ FEq(d[i][j], Zero) THEN m[i][j] ELSE o[i][j]]]
           : d \in {deflator}, m \in {markdown}, o \in {observed} })

\* np.where(np.isnan(x), 1, x) for a vector and for a matrix
VecNanToOne(x) == Only({ [k \in 1..Len(y) |-> IF IsNaN(y[k]) THEN One ELSE y[k]] : y \in {x} })
MatNanToOne(m) == Only({ [i \in 1..NumRows(x) |-> VecNanToOne(x[i])] : x \in {m} })

\* np.zeros of a vector and of a matrix
VecZeros(n) == [k \in 1..n |-> Zero]
MatZeros(n, k) == [i \in 1..n |-> VecZeros(k)]

\* Position of a year in the arrays, counted from 1 (nYear - nFirstYear from 0).
Position(y) == y - nFirstYear + 1

Hundred == FromInt(100)

\* x / index * 100 alone: the first deflation without the second.
DeflateCellOnce(x, index, vpb) ==
    Only({ FMul(FDiv(a, i), Hundred) : a \in {x}, i \in {index} })

\* x / index * 100, then * index / vpb (lines 454-498), for one cell.
DeflateCell(x, index, vpb) ==
    Only({ FDiv(FMul(FMul(FDiv(a, i), Hundred), i), w)
           : a \in {x}, i \in {index}, w \in {vpb} })
DeflateVec(x, index, vpb) ==
    Only({ [k \in 1..Len(a) |-> DeflateCell(a[k], i[k], vpb)] : a \in {x}, i \in {index} })
DeflateMat(x, index, vpb) ==
    Only({ [r0 \in 1..NumRows(a) |-> DeflateVec(a[r0], i[r0], vpb)] : a \in {x}, i \in {index} })

\* The defaults of gras (GRAS.py line 29) at the scale of the model: the
\* tolerance of the family of gras and the cap MaxIter.
DefaultEpsilon == CHOOSE e \in GrasEpsilons : TRUE
DefaultMaxIter == MaxIter

\* What a variable holds after "x, r, s, n = gras(...)": the matrix or None.
Returned(x) == IF x = None THEN None ELSE x[1]

\* Bound of the tables of a year: cells are multiples of TableUnit.
TableUnit == 2

\* The tables of a year, as lines 122-290 hand them over: production
\* (products by sectors) and uses at base prices (products by sectors and
\* demand), at current prices and at prices of the year before.
TablesOf(prod, prodLY, cons, consLY) ==
    [mProduction |-> MatFromInt(prod), mProductionLY |-> MatFromInt(prodLY),
     mConsumBasePrice |-> MatFromInt(cons), mConsumBasePriceLY |-> MatFromInt(consLY)]

\* Every cell with a finite non-zero deflator.
RegularTables ==
    Only({ TablesOf(<<<<3 * q, q>>, <<q, 3 * q>>>>, <<<<2 * q, q>>, <<q, 2 * q>>>>,
                    <<<<2 * q, q, q>>, <<q, 2 * q, q>>>>, <<<<q, q, q>>, <<q, q, q>>>>)
           : q \in {TableUnit} })

\* Cells that appear (deflator Inf), disappear (deflator 0) or stay empty
\* (deflator NaN), and a negative change of stocks.
DegenerateTables ==
    Only({ TablesOf(<<<<3 * q, 0>>, <<0, 3 * q>>>>, <<<<2 * q, q>>, <<q, 2 * q>>>>,
                    <<<<2 * q, q, -q>>, <<q, 2 * q, 0>>>>, <<<<q, q, -q>>, <<0, q, 0>>>>)
           : q \in {TableUnit} })

\* Every sector makes a little of the other product, which it did not make
\* at prices of the year before.
NewCellsTables ==
    Only({ TablesOf(<<<<3 * q, q>>, <<q, 3 * q>>>>, <<<<2 * q, 0>>, <<0, 2 * q>>>>,
                    <<<<2 * q, q, q>>, <<q, 2 * q, q>>>>, <<<<q, 0, q>>, <<0, q, q>>>>)
           : q \in {TableUnit} })

\* The second sector produces and uses nothing in either valuation.
EmptySectorTables ==
    Only({ TablesOf(<<<<3 * q, 0>>, <<q, 0>>>>, <<<<2 * q, 0>>, <<q, 0>>>>,
                    <<<<2 * q, 0, q>>, <<q, 0, q>>>>, <<<<q, 0, q>>, <<q, 0, q>>>>)
           : q \in {TableUnit} })

\* The first sector makes a little of the second product, which it did not
\* make at prices of the year before: the balanced matrix must lose the cell.
NewProductTables ==
    Only({ TablesOf(<<<<q, 0>>, <<1, q>>>>, <<<<q, 0>>, <<0, q>>>>,
                    <<<<2 * q, q, q>>, <<q, 2 * q, q>>>>, <<<<q, q, q>>, <<q, q, q>>>>)
           : q \in {TableUnit} })

\* The first product is used a little by the second sector, which did not use
\* it at prices of the year before: the balanced uses must lose the cell.
NewUseTables ==
    Only({ TablesOf(<<<<3 * q, q>>, <<q, 3 * q>>>>, <<<<2 * q, q>>, <<q, 2 * q>>>>,
                    <<<<q, 1, 0>>, <<0, q, q>>>>, <<<<q, 0, 0>>, <<0, q, q>>>>)
           : q \in {TableUnit} })

\* Every cell with a finite non-zero deflator, a negative change of stocks and
\* uses large enough for the sums and products of gras to be rounded.
NegativeStockTables ==
    Only({ TablesOf(<<<<3 * q, q>>, <<q, 3 * q>>>>, <<<<2 * q, q>>, <<q, 2 * q>>>>,
                    <<<<70 * q, 27 * q, -35 * q>>, <<19 * q, 45 * q, 3 * q>>>>,
                    <<<<67 * q, 26 * q, -33 * q>>, <<18 * q, 43 * q, 3 * q>>>>)
           : q \in {TableUnit} })

YearTables ==
    {RegularTables, DegenerateTables, NewCellsTables, EmptySectorTables, NewProductTables,
     NewUseTables, NegativeStockTables}

\* The state before the loop: lines 95-119.
InitDefl ==
    /\ pc = "loop"
    /\ nYear = nFirstYear
    /\ mProductionTrans = <<>> /\ mProductionTransLY = <<>>
    /\ mConsumBasePrice = <<>> /\ mConsumBasePriceLY = <<>>
    /\ arrConsumBasePrices =
          [d \in 1..3 |-> [p \in 1..NumYears |-> MatZeros(nProducts, nSectors + nColsDemand)]]
    /\ arrProductionTrans = [d \in 1..3 |-> [p \in 1..NumYears |-> MatZeros(nSectors, nProducts)]]
    /\ arr_vX = [d \in 1..3 |-> [p \in 1..NumYears |-> VecZeros(nSectors)]]
    /\ arr_vX_Prod = [d \in 1..3 |-> [p \in 1..NumYears |-> VecZeros(nProducts)]]
    /\ arr_Demand = [d \in 1..3 |-> [p \in 1..NumYears |-> VecZeros(nSectors + nColsDemand)]]
    /\ arr_VPB = [d \in 1..3 |-> [p \in 1..NumYears |-> VecZeros(1)]]
    /\ arrConsumBasePrices_Index =
          [p \in 1..NumYears |-> [i \in 1..nProducts |-> [j \in 1..(nSectors + nColsDemand) |->
              IF p = 1 THEN Hundred ELSE Zero]]]
    /\ arrProductionTrans_Index =
          [p \in 1..NumYears |-> [i \in 1..nSectors |-> [j \in 1..nProducts |->
              IF p = 1 THEN Hundred ELSE Zero]]]
    /\ arr_vX_Index = [p \in 1..NumYears |-> [k \in 1..nSectors |-> IF p = 1 THEN Hundred ELSE Zero]]
    /\ arr_vX_Prod_Index =
          [p \in 1..NumYears |-> [k \in 1..nProducts |-> IF p = 1 THEN Hundred ELSE Zero]]
    /\ arr_Demand_Index =
          [p \in 1..NumYears |-> [k \in 1..(nSectors + nColsDemand) |->
              IF p = 1 THEN Hundred ELSE Zero]]
    /\ arr_VPB_Index = [p \in 1..NumYears |-> IF p = 1 THEN Hundred ELSE Zero]
    /\ mConsumBasePrices_Deflator = <<>> /\ mProductionTrans_Deflator = <<>>
    /\ v_vX_Deflator = <<>> /\ v_vX_Prod_Deflator = <<>> /\ v_Demand_Deflator = <<>>
    /\ n_VPB_Deflator = <<>>
    /\ mProductionTransLY_Adjusted = <<>> /\ mConsumBasePriceLY_Adjusted = <<>>
    /\ arrConsumBasePrices_Deflated = <<>> /\ arrProductionTrans_Deflated = <<>>
    /\ arr_vX_Deflated = <<>> /\ arr_vX_Prod_Deflated = <<>> /\ arr_Demand_Deflated = <<>>
    /\ arr_VPB_Deflated = <<>>
    /\ arr_mLeontief = <<>> /\ mLeontief = <<>> /\ workbook = <<>> /\ exception = ""
    /\ GrasIdle /\ DistIdle /\ MarginIdle /\ ConvIdle /\ ToolIdle

\* Lines 122-335: the tables of nYear are read (for the first year the tables
\* at current prices stand for those at prices of the year before, lines
\* 126-127), the totals are taken and all is stored in the slots of the year.
ReadYear ==
    /\ pc = "loop"
    /\ nYear <= nLastYear
    /\ \E t \in YearTables :
         \E pt \in {Transpose(t.mProduction)},
            ptLY \in {Transpose(IF nYear > nFirstYear THEN t.mProductionLY ELSE t.mProduction)},
            cb \in {t.mConsumBasePrice},
            cbLY \in {IF nYear > nFirstYear THEN t.mConsumBasePriceLY ELSE t.mConsumBasePrice},
            p \in {Position(nYear)} :
            /\ mProductionTrans' = pt
            /\ mProductionTransLY' = ptLY
            /\ mConsumBasePrice' = cb
            /\ mConsumBasePriceLY' = cbLY
            /\ arrConsumBasePrices' = [arrConsumBasePrices EXCEPT ![1][p] = cb, ![2][p] = cbLY]
            /\ arrProductionTrans' = [arrProductionTrans EXCEPT ![1][p] = pt, ![2][p] = ptLY]
            /\ arr_vX' = [arr_vX EXCEPT ![1][p] = RowSums(pt), ![2][p] = RowSums(ptLY)]
            /\ arr_vX_Prod' = [arr_vX_Prod EXCEPT ![1][p] = ColSums(pt), ![2][p] = ColSums(ptLY)]
            /\ arr_Demand' = [arr_Demand EXCEPT ![1][p] = ColSums(cb), ![2][p] = ColSums(cbLY)]
            /\ arr_VPB' = [arr_VPB EXCEPT ![1][p] = <<FSum(RowSums(pt))>>,
                                          ![2][p] = <<FSum(RowSums(ptLY))>>]
    /\ IF nYear > nFirstYear
       THEN pc' = "deflators" /\ UNCHANGED nYear
       ELSE pc' = "loop" /\ nYear' = nYear + 1
    /\ UNCHANGED <<indexVars, deflatorVars, deflatedVars, outVars>>
    /\ UNCHANGED <<grasVars, distVars, marginVars, convVars, toolVars>>

\* Lines 341-386: the deflators of the year and the markdown substitution.
AdjustYear ==
    /\ pc = "deflators"
    /\ \E p \in {Position(nYear)} :
         \E cdefl \in {MatDiv(arrConsumBasePrices[1][p], arrConsumBasePrices[2][p])},
            pdefl \in {MatDiv(arrProductionTrans[1][p], arrProductionTrans[2][p])} :
            /\ mConsumBasePrices_Deflator' = cdefl
            /\ mProductionTrans_Deflator' = pdefl
            /\ v_vX_Deflator' = VecDiv(arr_vX[1][p], arr_vX[2][p])
            /\ v_vX_Prod_Deflator' = VecDiv(arr_vX_Prod[1][p], arr_vX_Prod[2][p])
            /\ v_Demand_Deflator' = VecDiv(arr_Demand[1][p], arr_Demand[2][p])
            /\ n_VPB_Deflator' = FSum(VecDiv(arr_VPB[1][p], arr_VPB[2][p]))
            /\ mProductionTransLY_Adjusted' =
                  MarkdownWhere(pdefl,
                                ScaleRows(RowSums(mProductionTransLY),
                                          DivideRowsUnchecked(mProductionTrans,
                                                              RowSums(mProductionTrans))),
                                mProductionTransLY)
            /\ mConsumBasePriceLY_Adjusted' =
                  MarkdownWhere(cdefl,
                                ScaleColumns(DivideColumnsUnchecked(mConsumBasePrice,
                                                                    ColSums(mConsumBasePrice)),
                                             ColSums(mConsumBasePriceLY)),
                                mConsumBasePriceLY)
    /\ pc' = "balance"
    /\ UNCHANGED <<yearVars, accVars, indexVars, deflatedVars, outVars>>
    /\ UNCHANGED <<grasVars, distVars, marginVars, convVars, toolVars>>

\* The two calls of gras, the restrictions taken from the tables at current
\* prices instead of the tables at prices of the year before.
BalanceYearToCurrent ==
    /\ pc = "balance"
    /\ \E g1 \in {gras(mProductionTransLY_Adjusted, RowSums(mProductionTrans),
                       ColSums(mProductionTrans), DefaultEpsilon, DefaultMaxIter)},
          g2 \in {gras(mConsumBasePriceLY_Adjusted, RowSums(mConsumBasePrice),
                       ColSums(mConsumBasePrice), DefaultEpsilon, DefaultMaxIter)} :
          /\ mProductionTransLY_Adjusted' = Returned(g1.ret[1])
          /\ mConsumBasePriceLY_Adjusted' = Returned(g2.ret[1])
          /\ stdout' = g1.stdout \o g2.stdout
    /\ pc' = "recalc"
    /\ UNCHANGED <<yearVars, accVars, indexVars, deflatedVars, outVars>>
    /\ UNCHANGED <<mConsumBasePrices_Deflator, mProductionTrans_Deflator, v_vX_Deflator,
                   v_vX_Prod_Deflator, v_Demand_Deflator, n_VPB_Deflator>>
    /\ UNCHANGED <<mA, u, v, nEpsilon, nMaxIter, r, s1, s2, M, nIterations, ret, run, first>>
    /\ UNCHANGED <<distVars, marginVars, convVars, toolVars>>

\* The two calls of gras, their results also written to the slots of the year.
BalanceYearInPlace ==
    /\ pc = "balance"
    /\ \E g1 \in {gras(mProductionTransLY_Adjusted, RowSums(mProductionTransLY),
                       ColSums(mProductionTransLY), DefaultEpsilon, DefaultMaxIter)},
          g2 \in {gras(mConsumBasePriceLY_Adjusted, RowSums(mConsumBasePriceLY),
                       ColSums(mConsumBasePriceLY), DefaultEpsilon, DefaultMaxIter)},
          p \in {Position(nYear)} :
          /\ mProductionTransLY_Adjusted' = Returned(g1.ret[1])
          /\ mConsumBasePriceLY_Adjusted' = Returned(g2.ret[1])
          /\ arrProductionTrans' = [arrProductionTrans EXCEPT ![2][p] = Returned(g1.ret[1])]
          /\ arrConsumBasePrices' = [arrConsumBasePrices EXCEPT ![2][p] = Returned(g2.ret[1])]
          /\ stdout' = g1.stdout \o g2.stdout
    /\ pc' = "recalc"
    /\ UNCHANGED <<yearVars, arr_vX, arr_vX_Prod, arr_Demand, arr_VPB, indexVars, deflatedVars, outVars>>
    /\ UNCHANGED <<mConsumBasePrices_Deflator, mProductionTrans_Deflator, v_vX_Deflator,
                   v_vX_Prod_Deflator, v_Demand_Deflator, n_VPB_Deflator>>
    /\ UNCHANGED <<mA, u, v, nEpsilon, nMaxIter, r, s1, s2, M, nIterations, ret, run, first>>
    /\ UNCHANGED <<distVars, marginVars, convVars, toolVars>>

\* Lines 388-398: the production and the uses at prices of the year before
\* are balanced to their own totals by gras with its default tolerance and
\* cap; what gras prints goes to the standard output.
BalanceYear ==
    /\ pc = "balance"
    /\ \E g1 \in {gras(mProductionTransLY_Adjusted, RowSums(mProductionTransLY),
                       ColSums(mProductionTransLY), DefaultEpsilon, DefaultMaxIter)},
          g2 \in {gras(mConsumBasePriceLY_Adjusted, RowSums(mConsumBasePriceLY),
                       ColSums(mConsumBasePriceLY), DefaultEpsilon, DefaultMaxIter)} :
          /\ mProductionTransLY_Adjusted' = Returned(g1.ret[1])
          /\ mConsumBasePriceLY_Adjusted' = Returned(g2.ret[1])
          /\ stdout' = g1.stdout \o g2.stdout
    /\ pc' = "recalc"
    /\ UNCHANGED <<yearVars, accVars, indexVars, deflatedVars, outVars>>
    /\ UNCHANGED <<mConsumBasePrices_Deflator, mProductionTrans_Deflator, v_vX_Deflator,
                   v_vX_Prod_Deflator, v_Demand_Deflator, n_VPB_Deflator>>
    /\ UNCHANGED <<mA, u, v, nEpsilon, nMaxIter, r, s1, s2, M, nIterations, ret, run, first>>
    /\ UNCHANGED <<distVars, marginVars, convVars, toolVars>>

\* The deflators recomputed, a failed balance passed over: the deflators of
\* lines 347-352 are kept.
RecalcYearLenient ==
    /\ pc = "recalc"
    /\ \E p \in {Position(nYear)} :
          /\ mConsumBasePrices_Deflator' =
                IF mConsumBasePriceLY_Adjusted = None
                THEN MatNanToOne(mConsumBasePrices_Deflator)
                ELSE MatNanToOne(MatDiv(arrConsumBasePrices[1][p], mConsumBasePriceLY_Adjusted))
          /\ mProductionTrans_Deflator' =
                IF mProductionTransLY_Adjusted = None
                THEN MatNanToOne(mProductionTrans_Deflator)
                ELSE MatNanToOne(MatDiv(arrProductionTrans[1][p], mProductionTransLY_Adjusted))
          /\ v_Demand_Deflator' = VecNanToOne(v_Demand_Deflator)
    /\ pc' = "chain"
    /\ UNCHANGED <<v_vX_Deflator, v_vX_Prod_Deflator, n_VPB_Deflator,
                   mProductionTransLY_Adjusted, mConsumBasePriceLY_Adjusted>>
    /\ UNCHANGED <<yearVars, accVars, indexVars, deflatedVars, outVars>>
    /\ UNCHANGED <<grasVars, distVars, marginVars, convVars, toolVars>>

\* Lines 400-412: the deflators of the two matrices are recomputed from the
\* balanced matrices and the NaN of the matrices and of the demand become 1.
\* Dividing an array by the None of a failed gras raises TypeError, which
\* nothing catches.
RecalcYear ==
    /\ pc = "recalc"
    /\ IF mConsumBasePriceLY_Adjusted = None \/ mProductionTransLY_Adjusted = None
       THEN /\ pc' = "raised"
            /\ exception' = "TypeError"
            /\ UNCHANGED <<deflatorVars, arr_mLeontief, mLeontief, workbook>>
       ELSE /\ \E p \in {Position(nYear)} :
                /\ mConsumBasePrices_Deflator' =
                      MatNanToOne(MatDiv(arrConsumBasePrices[1][p], mConsumBasePriceLY_Adjusted))
                /\ mProductionTrans_Deflator' =
                      MatNanToOne(MatDiv(arrProductionTrans[1][p], mProductionTransLY_Adjusted))
                /\ v_Demand_Deflator' = VecNanToOne(v_Demand_Deflator)
            /\ pc' = "chain"
            /\ UNCHANGED <<v_vX_Deflator, v_vX_Prod_Deflator, n_VPB_Deflator,
                           mProductionTransLY_Adjusted, mConsumBasePriceLY_Adjusted>>
            /\ UNCHANGED outVars
    /\ UNCHANGED <<yearVars, accVars, indexVars, deflatedVars>>
    /\ UNCHANGED <<grasVars, distVars, marginVars, convVars, toolVars>>

\* The chain taken from the base year instead of the year before.
ChainYearFromBase ==
    /\ pc = "chain"
    /\ \E p \in {Position(nYear)} :
          /\ arrConsumBasePrices_Index' = [arrConsumBasePrices_Index EXCEPT
                ![p] = MatMul(mConsumBasePrices_Deflator, arrConsumBasePrices_Index[1])]
          /\ arrProductionTrans_Index' = [arrProductionTrans_Index EXCEPT
                ![p] = MatMul(mProductionTrans_Deflator, arrProductionTrans_Index[1])]
          /\ arr_vX_Index' = [arr_vX_Index EXCEPT ![p] = VecMul(v_vX_Deflator, arr_vX_Index[1])]
          /\ arr_vX_Prod_Index' = [arr_vX_Prod_Index EXCEPT
                ![p] = VecMul(v_vX_Prod_Deflator, arr_vX_Prod_Index[1])]
          /\ arr_Demand_Index' = [arr_Demand_Index EXCEPT
                ![p] = VecMul(v_Demand_Deflator, arr_Demand_Index[1])]
          /\ arr_VPB_Index' = [arr_VPB_Index EXCEPT ![p] = FMul(n_VPB_Deflator, arr_VPB_Index[1])]
    /\ nYear' = nYear + 1
    /\ pc' = "loop"
    /\ UNCHANGED <<mProductionTrans, mProductionTransLY, mConsumBasePrice, mConsumBasePriceLY>>
    /\ UNCHANGED <<accVars, deflatorVars, deflatedVars, outVars>>
    /\ UNCHANGED <<grasVars, distVars, marginVars, convVars, toolVars>>

\* The chain written one slot early.
ChainYearShifted ==
    /\ pc = "chain"
    /\ \E p \in {Position(nYear)} :
          /\ arrConsumBasePrices_Index' = [arrConsumBasePrices_Index EXCEPT
                ![p - 1] = MatMul(mConsumBasePrices_Deflator, arrConsumBasePrices_Index[p - 1])]
          /\ arrProductionTrans_Index' = [arrProductionTrans_Index EXCEPT
                ![p - 1] = MatMul(mProductionTrans_Deflator, arrProductionTrans_Index[p - 1])]
          /\ arr_vX_Index' = [arr_vX_Index EXCEPT ![p - 1] = VecMul(v_vX_Deflator, arr_vX_Index[p - 1])]
          /\ arr_vX_Prod_Index' = [arr_vX_Prod_Index EXCEPT
                ![p - 1] = VecMul(v_vX_Prod_Deflator, arr_vX_Prod_Index[p - 1])]
          /\ arr_Demand_Index' = [arr_Demand_Index EXCEPT
                ![p - 1] = VecMul(v_Demand_Deflator, arr_Demand_Index[p - 1])]
          /\ arr_VPB_Index' = [arr_VPB_Index EXCEPT
                ![p - 1] = FMul(n_VPB_Deflator, arr_VPB_Index[p - 1])]
    /\ nYear' = nYear + 1
    /\ pc' = "loop"
    /\ UNCHANGED <<mProductionTrans, mProductionTransLY, mConsumBasePrice, mConsumBasePriceLY>>
    /\ UNCHANGED <<accVars, deflatorVars, deflatedVars, outVars>>
    /\ UNCHANGED <<grasVars, distVars, marginVars, convVars, toolVars>>

\* Lines 418-435: index[nYear] = deflator * index[nYear - 1] for the six
\* series; the loop goes on to the next year.
ChainYear ==
    /\ pc = "chain"
    /\ \E p \in {Position(nYear)} :
          /\ arrConsumBasePrices_Index' = [arrConsumBasePrices_Index EXCEPT
                ![p] = MatMul(mConsumBasePrices_Deflator, arrConsumBasePrices_Index[p - 1])]
          /\ arrProductionTrans_Index' = [arrProductionTrans_Index EXCEPT
                ![p] = MatMul(mProductionTrans_Deflator, arrProductionTrans_Index[p - 1])]
          /\ arr_vX_Index' = [arr_vX_Index EXCEPT ![p] = VecMul(v_vX_Deflator, arr_vX_Index[p - 1])]
          /\ arr_vX_Prod_Index' = [arr_vX_Prod_Index EXCEPT
                ![p] = VecMul(v_vX_Prod_Deflator, arr_vX_Prod_Index[p - 1])]
          /\ arr_Demand_Index' = [arr_Demand_Index EXCEPT
                ![p] = VecMul(v_Demand_Deflator, arr_Demand_Index[p - 1])]
          /\ arr_VPB_Index' = [arr_VPB_Index EXCEPT
                ![p] = FMul(n_VPB_Deflator, arr_VPB_Index[p - 1])]
    /\ nYear' = nYear + 1
    /\ pc' = "loop"
    /\ UNCHANGED <<mProductionTrans, mProductionTransLY, mConsumBasePrice, mConsumBasePriceLY>>
    /\ UNCHANGED <<accVars, deflatorVars, deflatedVars, outVars>>
    /\ UNCHANGED <<grasVars, distVars, marginVars, convVars, toolVars>>

\* Lines 441-447: the arrays to deflate are copies of the current-price slots.
EndLoop ==
    /\ pc = "loop"
    /\ nYear > nLastYear
    /\ arrConsumBasePrices_Deflated' = arrConsumBasePrices[1]
    /\ arrProductionTrans_Deflated' = arrProductionTrans[1]
    /\ arr_vX_Deflated' = arr_vX[1]
    /\ arr_vX_Prod_Deflated' = arr_vX_Prod[1]
    /\ arr_Demand_Deflated' = arr_Demand[1]
    /\ arr_VPB_Deflated' = [p \in 1..NumYears |-> FSum(arr_VPB[1][p])]
    /\ nYear' = nFirstYear
    /\ pc' = "deflate"
    /\ UNCHANGED <<mProductionTrans, mProductionTransLY, mConsumBasePrice, mConsumBasePriceLY>>
    /\ UNCHANGED <<accVars, indexVars, deflatorVars, outVars>>
    /\ UNCHANGED <<grasVars, distVars, marginVars, convVars, toolVars>>

\* Lines 450-498: the two deflations of the year nYear.
DeflateYear ==
    /\ pc = "deflate"
    /\ nYear <= nLastYear
    /\ \E p \in {Position(nYear)} :
         \E vpb \in {arr_VPB_Index[p]} :
            /\ arrConsumBasePrices_Deflated' = [arrConsumBasePrices_Deflated EXCEPT
                  ![p] = DeflateMat(@, arrConsumBasePrices_Index[p], vpb)]
            /\ arrProductionTrans_Deflated' = [arrProductionTrans_Deflated EXCEPT
                  ![p] = DeflateMat(@, arrProductionTrans_Index[p], vpb)]
            /\ arr_vX_Deflated' = [arr_vX_Deflated EXCEPT
                  ![p] = DeflateVec(@, arr_vX_Index[p], vpb)]
            /\ arr_vX_Prod_Deflated' = [arr_vX_Prod_Deflated EXCEPT
                  ![p] = DeflateVec(@, arr_vX_Prod_Index[p], vpb)]
            /\ arr_Demand_Deflated' = [arr_Demand_Deflated EXCEPT
                  ![p] = DeflateVec(@, arr_Demand_Index[p], vpb)]
            /\ arr_VPB_Deflated' = [arr_VPB_Deflated EXCEPT
                  ![p] = FMul(FDiv(@, vpb), Hundred)]
    /\ nYear' = nYear + 1
    /\ UNCHANGED pc
    /\ UNCHANGED <<mProductionTrans, mProductionTransLY, mConsumBasePrice, mConsumBasePriceLY>>
    /\ UNCHANGED <<accVars, indexVars, deflatorVars, outVars>>
    /\ UNCHANGED <<grasVars, distVars, marginVars, convVars, toolVars>>

\* Lines 500-506: the sums of the consistency check, by year.
Thousand == FromInt(1000)
MatTotal(m) == FSum(RowSums(m))
a0 == [p \in 1..NumYears |-> FDiv(MatTotal(arrProductionTrans_Deflated[p]), Thousand)]
a1 == [p \in 1..NumYears |-> FDiv(MatTotal(arrConsumBasePrices_Deflated[p]), Thousand)]
a2 == [p \in 1..NumYears |-> FDiv(FSum(arr_vX_Deflated[p]), Thousand)]
a3 == [p \in 1..NumYears |-> FDiv(FSum(arr_vX_Prod_Deflated[p]), Thousand)]
a4 == [p \in 1..NumYears |-> FDiv(FSum(arr_Demand_Deflated[p]), Thousand)]
a5 == [p \in 1..NumYears |-> FDiv(arr_VPB_Deflated[p], Thousand)]

\* Lines 508-514: the deflated arrays go to the third slot.
StoreDeflated ==
    /\ pc = "deflate"
    /\ nYear > nLastYear
    /\ arrConsumBasePrices' = [arrConsumBasePrices EXCEPT ![3] = arrConsumBasePrices_Deflated]
    /\ arrProductionTrans' = [arrProductionTrans EXCEPT ![3] = arrProductionTrans_Deflated]
    /\ arr_vX' = [arr_vX EXCEPT ![3] = arr_vX_Deflated]
    /\ arr_vX_Prod' = [arr_vX_Prod EXCEPT ![3] = arr_vX_Prod_Deflated]
    /\ arr_Demand' = [arr_Demand EXCEPT ![3] = arr_Demand_Deflated]
    /\ arr_VPB' = [arr_VPB EXCEPT ![3] = [p \in 1..NumYears |-> <<arr_VPB_Deflated[p]>>]]
    /\ pc' = "sectors"
    /\ UNCHANGED <<yearVars, indexVars, deflatorVars, deflatedVars, outVars>>
    /\ UNCHANGED <<grasVars, distVars, marginVars, convVars, toolVars>>

\* Lines 524-565 for the variant d and the position p: arr_mE, arr_mIC,
\* arr_mD, arr_mBn, arr_mA, arr_mZ, arr_mY.
SubColumns(m, from, to) ==
    Only({ [i \in 1..NumRows(x) |-> [j \in 1..(to - from + 1) |-> x[i][from + j - 1]]]
           : x \in {m} })
Slice_mE(d, p) == SubColumns(arrConsumBasePrices[d][p], nSectors + 1, nSectors + nColsDemand)
Slice_mIC(d, p) == SubColumns(arrConsumBasePrices[d][p], 1, nSectors)
Slice_mD(d, p) == DivideColumns(arrProductionTrans[d][p], arr_vX_Prod[d][p])
Slice_mBn(d, p) == DivideColumns(Slice_mIC(d, p), arr_vX[d][p])
Slice_mA(d, p) == dot_mm(Slice_mD(d, p), Slice_mBn(d, p))
Slice_mZ(d, p) == ScaleColumns(arr_mA[d][p], arr_vX[d][p])
Slice_mY(d, p) == dot_mm(Slice_mD(d, p), Slice_mE(d, p))
\* Lines 581-590
Slice_MIP(d, p) == Concatenate(Slice_mZ(d, p), Slice_mY(d, p))

\* Lines 520-566: the conversion to sectors by sectors of every variant and year.
ConvertYears ==
    /\ pc = "sectors"
    /\ arr_mA' = [d \in 1..3 |-> [p \in 1..NumYears |-> Slice_mA(d, p)]]
    /\ pc' = "leontief"
    /\ UNCHANGED <<mProduction, mIC, vX, mD, mBn, mE, mZ, mY>>
    /\ UNCHANGED <<grasVars, distVars, marginVars, pipeVars, toolVars>>

\* Lines 568-578: every variant and year is inverted in turn; the first
\* LinAlgError ends the run.
InvertYears ==
    /\ pc = "leontief"
    /\ \E recip \in BOOLEAN :
         \E invs \in {[d \in 1..3 |-> [p \in 1..NumYears |->
                         linalg_inv(MatSub(eye(nSectors), arr_mA[d][p]), recip)]]} :
            IF \E d \in 1..3 : \E p \in 1..NumYears : invs[d][p] = None
            THEN /\ pc' = "raised"
                 /\ exception' = "LinAlgError"
                 /\ UNCHANGED arr_mLeontief
            ELSE /\ pc' = "excel"
                 /\ arr_mLeontief' = [d \in 1..3 |-> [p \in 1..NumYears |-> invs[d][p][1]]]
                 /\ UNCHANGED exception
    /\ UNCHANGED <<mLeontief, workbook>>
    /\ UNCHANGED <<yearVars, accVars, indexVars, deflatorVars, deflatedVars>>
    /\ UNCHANGED <<grasVars, distVars, marginVars, convVars, toolVars>>

\* Line 599: lYearsToWrite = [2010, 2013, 2016, 2019], the last year and
\* every third year from the first.
lYearsToWrite == { y \in nFirstYear..nLastYear : y = nLastYear \/ (y - nFirstYear) % 3 = 0 }
vMIPNames == <<"PCorrentes", "PAno_Anterior", "Deflacionada">>
\* The labels read with the tables (lines 144 and 153).
vNameSector == [k \in 1..nSectors |-> "Sector " \o ToString(k)]
vNameDemand == [k \in 1..nColsDemand |-> "Demand " \o ToString(k)]

\* Lines 605-608, 614-617, 623-626 and 631-634: the loop
\* "for nYear in range(nFirstYear + 1, nLastYear): for nDim in range(3):
\* if nYear in lYearsToWrite: append"; the pairs <<nDim + 1, nYear>> of its
\* appends, in order.
RECURSIVE ListedFrom(_)
ListedFrom(y) ==
    IF y >= nLastYear THEN <<>>
    ELSE (IF y \in lYearsToWrite THEN [d \in 1..3 |-> <<d, y>>] ELSE <<>>)
         \o ListedFrom(y + 1)

\* Lines 601-634: the four lists given to write_data_excel.
vDataSheet ==
    <<Slice_MIP(1, 1)>>
        \o [n \in 1..Len(ListedFrom(nFirstYear + 1)) |->
              Slice_MIP(ListedFrom(nFirstYear + 1)[n][1],
                        Position(ListedFrom(nFirstYear + 1)[n][2]))]
vSheetNames ==
    <<"MIP_" \o ToString(nFirstYear)>>
        \o [n \in 1..Len(ListedFrom(nFirstYear + 1)) |->
              "MIP_" \o ToString(ListedFrom(nFirstYear + 1)[n][2]) \o "_"
                  \o vMIPNames[ListedFrom(nFirstYear + 1)[n][1]]]
vRowLabels ==
    <<vNameSector>> \o [n \in 1..Len(ListedFrom(nFirstYear + 1)) |-> vNameSector]
vColumnLabels ==
    <<vNameSector \o vNameDemand>>
        \o [n \in 1..Len(ListedFrom(nFirstYear + 1)) |-> vNameSector \o vNameDemand]

\* Lines 596-642: the workbook is written from the lists of sheet names, of
\* data, of row labels and of column labels.
WriteDeflated ==
    /\ pc = "excel"
    /\ workbook' = [lSheetName |-> vSheetNames, lDataSheet |-> vDataSheet,
                    lRowsLabel |-> vRowLabels, lColsLabel |-> vColumnLabels]
    /\ pc' = "written"
    /\ UNCHANGED <<arr_mLeontief, mLeontief, exception>>
    /\ UNCHANGED <<yearVars, accVars, indexVars, deflatorVars, deflatedVars>>
    /\ UNCHANGED <<grasVars, distVars, marginVars, convVars, toolVars>>

NextDefl ==
    \/ ReadYear
    \/ AdjustYear
    \/ BalanceYear
    \/ RecalcYear
    \/ ChainYear
    \/ EndLoop
    \/ DeflateYear
    \/ StoreDeflated
    \/ ConvertYears
    \/ InvertYears
    \/ WriteDeflated

SpecDefl == InitDefl /\ [][NextDefl]_vars

(***************************************************************************)
(* SupportFunctions_V3.py lines 238-431: load_disaggregations,             *)
(* column_sector_disaggregation, row_product_disaggregation and            *)
(* name_disaggregation.  Positions count from 0 as in the code; a matrix   *)
(* is handled as the sequence of its lines (columns or rows) and position  *)
(* k is line k + 1 of the sequence.  The cells are small integers, on      *)
(* which the float product is exact.  An outcome is a record: exc names    *)
(* the exception raised ("" for none), val is the value returned.          *)
(***************************************************************************)
Returns(x) == [exc |-> "", val |-> x]
Raises(e) == [exc |-> e, val |-> <<>>]

Min(a, b) == IF a < b THEN a ELSE b

\* x[a:b] of numpy for 0 <= a: the bounds are clipped to the length.
Slice(x, a, b) ==
    [k \in 1..(IF Min(b, Len(x)) > Min(a, Len(x)) THEN Min(b, Len(x)) - Min(a, Len(x)) ELSE 0)
        |-> x[Min(a, Len(x)) + k]]

\* new[a:b] = src of numpy: the source is copied when the lengths agree,
\* repeated when it has one line, and the assignment raises ValueError
\* otherwise.
AssignSlice(new, a, b, src) ==
    IF Len(src) = Len(Slice(new, a, b))
    THEN Returns([k \in 1..Len(new) |->
                    IF k > Min(a, Len(new)) /\ k <= Min(a, Len(new)) + Len(src)
                    THEN src[k - Min(a, Len(new))] ELSE new[k]])
    ELSE IF Len(src) = 1
    THEN Returns([k \in 1..Len(new) |->
                    IF k > Min(a, Len(new)) /\ k <= Min(b, Len(new)) THEN src[1] ELSE new[k]])
    ELSE Raises("ValueError")

\* line * multiplier
ScaleLine(line, m) == [i \in 1..Len(line) |-> line[i] * m]

\* Lines 260-280: nNewIndice counts one more line for every entry whose
\* position repeats the position of the entry before.
NewIndice(pos, nIndice) ==
    nIndice + Cardinality({ i \in 2..Len(pos) : pos[i] = pos[i - 1] })

\* Lines 313-331 (and 367-385): the loop over the entries.  st holds
\* new (the new lines), nDisaggreg, nLine (nCol or nRow) and
\* nInitialPosition; the inner loop writes one entry per round.
RECURSIVE DisaggWhile(_, _, _, _), DisaggInner(_, _, _, _)
DisaggInner(arr, pos, mult, st) ==
    IF st.nInitialPosition # pos[st.nDisaggreg + 1]
    THEN DisaggWhile(arr, pos, mult, st)
    ELSE IF st.nLine >= Len(st.new)
    THEN Raises("IndexError")
    ELSE LET wrote == [st EXCEPT
                         !.new = [st.new EXCEPT ![st.nLine + 1] =
                                     ScaleLine(arr[st.nInitialPosition + 1],
                                               mult[st.nDisaggreg + 1])],
                         !.nLine = st.nLine + 1,
                         !.nDisaggreg = st.nDisaggreg + 1]
         IN  IF wrote.nDisaggreg >= Len(pos)
             THEN DisaggWhile(arr, pos, mult, wrote)
             ELSE DisaggInner(arr, pos, mult, wrote)

DisaggWhile(arr, pos, mult, st) ==
    IF st.nDisaggreg >= Len(pos)
    THEN Returns(st)
    ELSE IF st.nInitialPosition = pos[st.nDisaggreg + 1]
    THEN DisaggInner(arr, pos, mult, st)
    ELSE LET nInitialPosition == pos[st.nDisaggreg + 1]
             before == pos[st.nDisaggreg]
             nEnd == st.nLine + nInitialPosition - before
             copied == AssignSlice(st.new, st.nLine, nEnd,
                                   Slice(arr, before + 1, nInitialPosition))
         IN  IF nInitialPosition - before > 1
             THEN IF copied.exc # ""
                  THEN copied
                  ELSE DisaggInner(arr, pos, mult,
                                   [st EXCEPT !.nInitialPosition = nInitialPosition,
                                              !.new = copied.val, !.nLine = nEnd])
             ELSE DisaggInner(arr, pos, mult,
                              [st EXCEPT !.nInitialPosition = nInitialPosition])

\* Lines 300-335 (and 354-389) on the lines of the matrix: the lines before
\* the first position are copied, the loop runs, the lines after the last
\* position are copied.
DisaggregateLines(arr, pos, mult, nNew, nOld) ==
    LET zeros == [k \in 1..nNew |-> [i \in 1..Len(arr[1]) |-> 0]]
        head == IF pos[1] # 0
                 THEN AssignSlice(zeros, 0, pos[1], Slice(arr, 0, pos[1]))
                 ELSE Returns(zeros)
        looped == IF head.exc # "" THEN head
                  ELSE DisaggWhile(arr, pos, mult,
                                   [new |-> head.val, nDisaggreg |-> 0, nLine |-> pos[1],
                                    nInitialPosition |-> pos[1]])
    IN  IF looped.exc # "" THEN looped
        ELSE AssignSlice(looped.val.new, looped.val.nLine, nNew,
                         Slice(arr, pos[Len(pos)] + 1, nOld))

\* The matrix as the sequence of its columns, and back.
Columns(m) == [j \in 1..Len(m[1]) |-> [i \in 1..Len(m) |-> m[i][j]]]

column_sector_disaggregation(m, pos, mult, nNew, nOld) ==
    LET out == DisaggregateLines(Columns(m), pos, mult, nNew, nOld)
    IN  IF out.exc # "" THEN out ELSE Returns(Columns(out.val))

row_product_disaggregation(m, pos, mult, nNew, nOld) ==
    DisaggregateLines(m, pos, mult, nNew, nOld)

\* Lines 410-423: the loop of name_disaggregation over the entries.
RECURSIVE NameWhile(_, _, _, _, _, _)
NameWhile(names, pos, new, out, nRow, nDisaggreg) ==
    IF nDisaggreg >= Len(pos)
    THEN Returns(<<out, nRow>>)
    ELSE IF nRow # pos[nDisaggreg + 1]
    THEN IF nRow >= Len(names)
         THEN Raises("IndexError")
         ELSE NameWhile(names, pos, new, Append(out, names[nRow + 1]), nRow + 1, nDisaggreg)
    ELSE NameWhile(names, pos, new, Append(out, new[nDisaggreg + 1]),
                   IF nDisaggreg + 1 < Len(pos) THEN pos[nDisaggreg + 2] ELSE nRow,
                   nDisaggreg + 1)

\* Lines 425-431: the names after the last entry.
name_disaggregation(names, pos, new, nOld) ==
    LET looped == NameWhile(names, pos, new, <<>>, 0, 0)
    IN  IF looped.exc # "" THEN looped
        ELSE Returns(looped.val[1] \o Slice(names, looped.val[2] + 1, nOld))

\* Bounds of the disaggregation: lines of the matrix and entries of the list.
MaxIndex == 5
MaxDisaggreg == 3

\* The ascending position lists of at most MaxDisaggreg entries in 0 .. n - 1.
PositionLists(n) ==
    { pos \in UNION { [1..k -> 0..(n - 1)] : k \in 1..MaxDisaggreg } :
        \A i \in 2..Len(pos) : pos[i - 1] <= pos[i] }

\* A caller holds a 2 x nIndex matrix (transposed for the rows) with a
\* different value in every cell, the names of its nIndex lines and a
\* disaggregation sheet with an ascending list of positions.
InitDisagg ==
    /\ pc = "disaggregate"
    /\ nIndex \in 3..MaxIndex
    /\ mArray = [i \in 1..2 |-> [j \in 1..nIndex |-> 10 * i + j]]
    /\ vNames = [j \in 1..nIndex |-> j]
    /\ vPosDisaggreg \in PositionLists(nIndex)
    /\ vMultipliers = [k \in 1..Len(vPosDisaggreg) |-> k + 1]
    /\ vNamesDisaggreg = [k \in 1..Len(vPosDisaggreg) |-> 100 + k]
    /\ nNewIndex = 0
    /\ mNewColumns = <<>> /\ mNewRows = <<>> /\ vNewName = <<>>
    /\ GdpIdle
    /\ GrasIdle /\ DistIdle /\ MarginIdle /\ ConvIdle /\ PipeIdle

\* Lines 238-281: load_disaggregations returns the new number of lines.
LoadDisaggregations ==
    /\ pc = "disaggregate"
    /\ nNewIndex' = NewIndice(vPosDisaggreg, nIndex)
    /\ pc' = "loaded"
    /\ UNCHANGED <<mArray, vNames, vPosDisaggreg, vMultipliers, vNamesDisaggreg, nIndex,
                   mNewColumns, mNewRows, vNewName>>
    /\ UNCHANGED <<grasVars, distVars, marginVars, convVars, pipeVars, gdpVars>>

\* Main_V3.py lines 175-180: the call of column_sector_disaggregation.
DisaggregateColumns ==
    /\ pc = "loaded"
    /\ mNewColumns' = column_sector_disaggregation(mArray, vPosDisaggreg, vMultipliers,
                                                   nNewIndex, nIndex)
    /\ pc' = "columns"
    /\ UNCHANGED <<mArray, vNames, vPosDisaggreg, vMultipliers, vNamesDisaggreg, nIndex,
                   nNewIndex, mNewRows, vNewName>>
    /\ UNCHANGED <<grasVars, distVars, marginVars, convVars, pipeVars, gdpVars>>

\* Main_V3.py lines 191-200: the call of row_product_disaggregation, on the
\* transposed matrix.
DisaggregateRows ==
    /\ pc = "columns"
    /\ mNewRows' = row_product_disaggregation(Columns(mArray), vPosDisaggreg, vMultipliers,
                                              nNewIndex, nIndex)
    /\ pc' = "rows"
    /\ UNCHANGED <<mArray, vNames, vPosDisaggreg, vMultipliers, vNamesDisaggreg, nIndex,
                   nNewIndex, mNewColumns, vNewName>>
    /\ UNCHANGED <<grasVars, distVars, marginVars, convVars, pipeVars, gdpVars>>

\* Main_V3.py lines 181-182: the call of name_disaggregation.
DisaggregateNames ==
    /\ pc = "rows"
    /\ vNewName' = name_disaggregation(vNames, vPosDisaggreg, vNamesDisaggreg, nIndex)
    /\ pc' = "named"
    /\ UNCHANGED <<mArray, vNames, vPosDisaggreg, vMultipliers, vNamesDisaggreg, nIndex,
                   nNewIndex, mNewColumns, mNewRows>>
    /\ UNCHANGED <<grasVars, distVars, marginVars, convVars, pipeVars, gdpVars>>

NextDisagg ==
    \/ LoadDisaggregations
    \/ DisaggregateColumns
    \/ DisaggregateRows
    \/ DisaggregateNames

SpecDisagg == InitDisagg /\ [][NextDisagg]_vars

(***************************************************************************)
(* SupportFunctions_V3.py lines 434-539: gdp_calculation.  Rows and        *)
(* columns count from 0 as in the code; the cells are small integers, on   *)
(* which the float sums are exact; the names are written without accents.  *)
(***************************************************************************)
\* mMIPGeral[i, j]
Cell(m, i, j) == m[i + 1][j + 1]

\* The scalars of lines 463-523.
nProducao(m, n) == Cell(m, n, Len(m[1]) - 1)
nImpostos(m, n) ==
    Cell(m, n + 2, Len(m[1]) - 1) + Cell(m, n + 3, Len(m[1]) - 1)
        + Cell(m, n + 4, Len(m[1]) - 1) + Cell(m, n + 5, Len(m[1]) - 1)
nCI(m, n) == Cell(m, n + 6, n)
nRemunEmpregados(m, n) == Cell(m, n + 8, n)
nEOB_RM(m, n) == Cell(m, n + 14, n)
nImpLiqProdImport(m, n, d) ==
    IF d = 2
    THEN nImpostos(m, n) + Cell(m, n + 15, n) + Cell(m, n + 16, n)
    ELSE nImpostos(m, n) + Cell(m, n + 17, n) + Cell(m, n + 18, n)
nExportTotal(m, n, d) ==
    IF d = 2 THEN Cell(m, n + 6, n + 1) + Cell(m, n + 6, n + 2) ELSE Cell(m, n + 6, n + 1)
\* The columns after the exports: one further to the right when nDimension = 2.
nGovernConsum(m, n, d) == Cell(m, n + 6, n + (IF d = 2 THEN 3 ELSE 2))
nISFLSFConsum(m, n, d) == Cell(m, n + 6, n + (IF d = 2 THEN 4 ELSE 3))
nFamilyConsum(m, n, d) == Cell(m, n + 6, n + (IF d = 2 THEN 5 ELSE 4))
nFBCF(m, n, d) == Cell(m, n + 6, n + (IF d = 2 THEN 6 ELSE 5))
nColEstockVar(m, n, d) == Cell(m, n + 6, n + (IF d = 2 THEN 7 ELSE 6))
nimporTotal(m, n) == Cell(m, n + 1, Len(m[1]) - 1)

\* The pair <<vGDP, vNameGDP>> returned by gdp_calculation: the values in
\* the order of the assignments vGDP[0] .. vGDP[15], the names in the order
\* they are appended.
gdp_calculation(m, n, d) ==
    << <<nProducao(m, n) + nImpostos(m, n) - nCI(m, n),
         nProducao(m, n),
         nImpostos(m, n),
         nCI(m, n),
         nRemunEmpregados(m, n) + nEOB_RM(m, n) + nImpLiqProdImport(m, n, d),
         nRemunEmpregados(m, n),
         nEOB_RM(m, n),
         nImpLiqProdImport(m, n, d),
         nExportTotal(m, n, d) + nGovernConsum(m, n, d) + nISFLSFConsum(m, n, d)
             + nFamilyConsum(m, n, d) + nFBCF(m, n, d) + nColEstockVar(m, n, d)
             - nimporTotal(m, n),
         nFamilyConsum(m, n, d),
         nGovernConsum(m, n, d),
         nISFLSFConsum(m, n, d),
         nFBCF(m, n, d),
         nColEstockVar(m, n, d),
         nimporTotal(m, n),
         nExportTotal(m, n, d)>>,
       <<"PIB pela otica do produto",
         "Producao",
         "Impostos",
         "Consumo Intermediario",
         "PIB pela otica da Renda",
         "Remuneracao dos empregados",
         "EOB + RM",
         "Impostos liquidos sobre a producao e importacao",
         "PIB pela otica da despesa",
         "Consumo das Familias",
         "Consumo do Governo",
         "Consumo das ISFLSF",
         "FBCF",
         "Variacao do estoque",
         "exportacao de bens e servicos",
         "importacao de bens e servicos (-)">> >>

\* Bound of the cells drawn for the matrix given to gdp_calculation.
MaxGdpCell == 3

\* The matrix of Main_V3.py line 463 for n sectors: n + 19 rows and n + 8
\* columns (n + 9 when nDimension = 2, which has two columns of exports);
\* every cell differs from every other, and the cells of the exports, of the
\* imports and of the change of stocks are drawn.
GdpMatrix(n, d, export, import, stock) ==
    [i \in 1..(n + 19) |-> [j \in 1..(n + (IF d = 2 THEN 9 ELSE 8)) |->
        IF i - 1 = n + 6 /\ j - 1 = n + 1 THEN export
        ELSE IF i - 1 = n + 1 /\ j = n + (IF d = 2 THEN 9 ELSE 8) THEN import
        ELSE IF i - 1 = n + 6 /\ j - 1 = n + (IF d = 2 THEN 7 ELSE 6) THEN stock
        ELSE 16 * i + j]]

\* A caller is about to call gdp_calculation.
InitGdp ==
    /\ pc = "gdp"
    /\ nSector \in {1, 2}
    /\ nDimension \in 0..3
    /\ \E export \in 0..MaxGdpCell, import \in 0..MaxGdpCell, stock \in -1..1 :
          mMIPGeral = GdpMatrix(nSector, nDimension, export, import, stock)
    /\ vGDP = <<>> /\ vNameGDP = <<>>
    /\ DisIdle
    /\ GrasIdle /\ DistIdle /\ MarginIdle /\ ConvIdle /\ PipeIdle

\* Main_V3.py line 475: the call of gdp_calculation.
CallGdp ==
    /\ pc = "gdp"
    /\ \E out \in {gdp_calculation(mMIPGeral, nSector, nDimension)} :
          vGDP' = out[1] /\ vNameGDP' = out[2]
    /\ pc' = "gdp returned"
    /\ UNCHANGED <<mMIPGeral, nSector, nDimension>>
    /\ UNCHANGED <<grasVars, distVars, marginVars, convVars, pipeVars, disVars>>

NextGdp == CallGdp

SpecGdp == InitGdp /\ [][NextGdp]_vars

(***************************************************************************)
(* Properties of gras.                                                     *)
(***************************************************************************)

\* gras has returned a matrix.
GrasSucceeded == pc = "returned" /\ ret[1] # None
\* The call's shapes fit.
ShapesMatch == NumRows(mA) = Len(u) /\ NumCols(mA) = Len(v)
\* Two floats differ by at most nEpsilon.
WithinEps(x, y) == FLe(FAbs(FSub(x, y)), nEpsilon)
\* Every row and every column of m has a non-zero cell.
NonDegenerate(m) ==
    /\ \A i \in 1..NumRows(m) : \E j \in 1..NumCols(m) : Sgn(m[i][j]) # 0
    /\ \A j \in 1..NumCols(m) : \E i \in 1..NumRows(m) : Sgn(m[i][j]) # 0
\* Every row and every column of m has a strictly positive cell.
PositiveInEveryLine(m) ==
    /\ \A i \in 1..NumRows(m) : \E j \in 1..NumCols(m) : Sgn(m[i][j]) = 1
    /\ \A j \in 1..NumCols(m) : \E i \in 1..NumRows(m) : Sgn(m[i][j]) = 1
\* The 2 x 2 matrix with first cell t whose rows sum to uu and whose first
\* column sums to vv[1].
Balanced2x2(t, uu, vv) ==
    <<<<FromInt(t), FSub(uu[1], FromInt(t))>>,
      <<FSub(vv[1], FromInt(t)), FSub(uu[2], FSub(vv[1], FromInt(t)))>>>>
\* The restrictions are feasible for the 2 x 2 matrix a: some matrix with the
\* signs of a, cell by cell, has exactly the row sums uu and the column sums vv.
Feasible(a, uu, vv) ==
    /\ NumRows(a) = 2 /\ NumCols(a) = 2 /\ Len(uu) = 2 /\ Len(vv) = 2
    /\ \E t \in -(GrasScale * MaxTot) .. GrasScale * MaxTot :
          \E x \in {Balanced2x2(t, uu, vv)} :
              /\ \A i \in 1..2 : \A j \in 1..2 : Sgn(x[i][j]) = Sgn(a[i][j])
              /\ FEq(FAdd(x[1][2], x[2][2]), vv[2])

\* C1: whenever gras returns a matrix for a non-degenerate input (shapes match,
\* every row and column of the input has a non-zero cell, the restrictions are
\* feasible), every row sum of the returned matrix is within nEpsilon of the
\* row restriction and every column sum within nEpsilon of the column
\* restriction.
C1_BalancerExactness ==
    (GrasSucceeded /\ ShapesMatch /\ NonDegenerate(mA) /\ Feasible(mA, u, v))
        => /\ \A i \in 1..Len(u) : WithinEps(RowSums(ret[1][1])[i], u[i])
           /\ \A j \in 1..Len(v) : WithinEps(ColSums(ret[1][1])[j], v[j])

\* Every restriction is strictly positive.
PositiveRestrictions ==
    /\ \A i \in 1..Len(u) : Sgn(u[i]) = 1
    /\ \A j \in 1..Len(v) : Sgn(v[j]) = 1

\* C2: on every successful return of gras with strictly positive restrictions
\* and a strictly positive cell in every row and column of the input, a cell
\* that is strictly positive in the input is >= 0 in the output and a cell that
\* is strictly negative in the input is <= 0 in the output.
C2_SignPreservation ==
    (GrasSucceeded /\ ShapesMatch /\ PositiveRestrictions /\ PositiveInEveryLine(mA))
        => \A i \in 1..NumRows(mA) : \A j \in 1..NumCols(mA) :
              /\ Sgn(mA[i][j]) = 1 => FLe(Zero, ret[1][1][i][j])
              /\ Sgn(mA[i][j]) = -1 => FLe(ret[1][1][i][j], Zero)

\* A first call has returned a matrix for an input with a negative cell that
\* is still negative, and a positive cell that is still positive.
C2_Witness ==
    /\ GrasSucceeded /\ run = 1 /\ ShapesMatch
    /\ PositiveRestrictions /\ PositiveInEveryLine(mA)
    /\ \E i \in 1..2 : \E j \in 1..2 : Sgn(mA[i][j]) = -1 /\ Sgn(ret[1][1][i][j]) = -1
    /\ \E i \in 1..2 : \E j \in 1..2 : Sgn(mA[i][j]) = 1 /\ Sgn(ret[1][1][i][j]) = 1

\* C3: if the column-multiplier change is still above nEpsilon when the
\* iteration counter reaches nMaxIter, gras returns (None, None, None, nMaxIter);
\* and a matrix is only ever returned when the change is not above nEpsilon.
C3_NonConvergenceReported ==
    /\ [](GrasSucceeded => ~FGt(M, nEpsilon))
    /\ [][(pc = "while" /\ FGt(M, nEpsilon) /\ nIterations = nMaxIter)
             => (pc' = "returned" /\ ret' = <<None, None, None, Some(nMaxIter)>>)]_vars

\* A call with the cap MaxIter has ended on the failure indicator, the
\* multipliers still moving by more than nEpsilon.
C3_Witness ==
    /\ pc = "returned" /\ nMaxIter = MaxIter /\ nIterations = MaxIter
    /\ FGt(M, nEpsilon)
    /\ ret = <<None, None, None, Some(MaxIter)>>

\* C4: if the row restriction's length differs from the matrix row count, or
\* the column restriction's length from the column count, gras returns
\* (None, None, None, None) without computing any multiplier, and a call
\* wrong on the rows (wrong on both axes included) is reported as a row mismatch.
C4_ShapeMismatchReported ==
    [][(pc = "call" /\ ~ShapesMatch)
          => /\ pc' = "returned"
             /\ ret' = <<None, None, None, None>>
             /\ UNCHANGED <<r, s1, s2, M, nIterations>>
             /\ nIterations' = 0
             /\ stdout' = (IF NumRows(mA) # Len(u)
                           THEN RowMismatchMessage(Len(u), NumRows(mA))
                           ELSE ColMismatchMessage(Len(v), NumCols(mA)))]_vars

\* A call wrong on both axes has been reported as a row mismatch.
C4_Witness ==
    /\ pc = "returned"
    /\ NumRows(mA) # Len(u) /\ NumCols(mA) # Len(v)
    /\ ret = <<None, None, None, None>>
    /\ r = <<>> /\ s2 = <<>>
    /\ stdout = RowMismatchMessage(Len(u), NumRows(mA))

\* No cell of m is negative or NaN.
NonNegative(m) ==
    \A i \in 1..NumRows(m) : \A j \in 1..NumCols(m) : FLe(Zero, m[i][j])

\* C5: for restrictions whose row totals and column totals do not sum to the
\* same grand total, gras called with nMaxIter = MaxIter returns no matrix
\* (stated for the plainest inputs: no negative cell, a non-zero cell in every
\* row and column).
C5_InfeasibleRejected ==
    (pc = "returned" /\ run = 1 /\ ShapesMatch /\ nMaxIter = MaxIter
        /\ NonNegative(mA) /\ NonDegenerate(mA)
        /\ ~FEq(FSum(u), FSum(v)))
        => ret[1] = None

\* C6: gras called on the matrix X a first call returned, with the same
\* restrictions, returns X again, cell by cell within nEpsilon, and an
\* iteration count of at most 2 (stated for the plainest X: no negative or NaN
\* cell, a non-zero cell in every row and column, restrictions feasible for it).
C6_Idempotence ==
    (pc = "returned" /\ run = 2
        /\ NonNegative(mA) /\ NonDegenerate(mA) /\ Feasible(mA, u, v))
        => /\ ret[1] # None
           /\ \A i \in 1..NumRows(mA) : \A j \in 1..NumCols(mA) :
                 WithinEps(ret[1][1][i][j], first[1][1][i][j])
           /\ ret[4][1] <= 2

\* C19: for every shape-consistent input and every nMaxIter >= 1, gras
\* returns; the iteration counter stays between 1 and nMaxIter from the first
\* updates on, the loop body runs only while the counter is below nMaxIter
\* (so at most nMaxIter - 1 times), and the returned count is between 1 and
\* nMaxIter.
C19_GrasTerminates ==
    /\ [](pc \in {"while", "returned"} /\ ShapesMatch => nIterations \in 1..nMaxIter)
    /\ [](pc = "returned" /\ ShapesMatch => ret[4] # None /\ ret[4][1] \in 1..nMaxIter)
    /\ [][(pc = "while" /\ nIterations' # nIterations)
             => (nIterations < nMaxIter /\ nIterations' = nIterations + 1)]_vars
    /\ (pc = "call" /\ ShapesMatch) ~> (pc = "returned")

\* A call with the cap MaxIter has returned a matrix after the loop body ran
\* MaxIter - 1 times.
C19_Witness ==
    /\ GrasSucceeded /\ run = 1
    /\ nMaxIter = MaxIter /\ nIterations = MaxIter
    /\ ret[4] = Some(MaxIter)

\* C20: on every successful return of gras the maximum absolute difference
\* between the last two column-multiplier vectors is at most nEpsilon, the
\* returned s is the last column-multiplier vector, the returned r is the row
\* update computed from that s, and the returned matrix is rebuilt from those
\* r and s.
C20_ReturnedOnlyWhenConverged ==
    GrasSucceeded =>
        /\ FLe(M, nEpsilon)
        /\ ret[3] = Some(s2)
        /\ ret[2] = Some(RowMultiplier(mA, s2, u))
        /\ ret[1] = Some(UpdatedMatrix(mA, RowMultiplier(mA, s2, u), s2))

\* The row i, the column j of m holds zeros only.
EmptyRow(m, i) == \A j \in 1..NumCols(m) : Sgn(m[i][j]) = 0 /\ IsNum(m[i][j])
EmptyCol(m, j) == \A i \in 1..NumRows(m) : Sgn(m[i][j]) = 0 /\ IsNum(m[i][j])
HasEmptyLine(m) ==
    \/ \E i \in 1..NumRows(m) : EmptyRow(m, i)
    \/ \E j \in 1..NumCols(m) : EmptyCol(m, j)
\* Every entry of the vector is a finite number.
VecFinite(x) == \A k \in 1..Len(x) : IsNum(x[k])

\* C21: for an input matrix with an entirely zero row or column, the row and
\* column multipliers of the first step and of every iteration are finite,
\* and the empty row or column of a returned matrix holds zeros only.
C21_EmptyLinesKeepMultipliersFinite ==
    (pc \in {"while", "returned"} /\ ShapesMatch /\ HasEmptyLine(mA)) =>
        /\ VecFinite(r) /\ VecFinite(s1) /\ VecFinite(s2)
        /\ GrasSucceeded =>
              /\ \A i \in 1..NumRows(mA) : EmptyRow(mA, i) => EmptyRow(ret[1][1], i)
              /\ \A j \in 1..NumCols(mA) : EmptyCol(mA, j) => EmptyCol(ret[1][1], j)

\* C27: on every successful return of gras every cell that is exactly 0 in
\* the input matrix is exactly 0 in the returned matrix.
C27_ZeroPreservation ==
    GrasSucceeded =>
        \A i \in 1..NumRows(mA) : \A j \in 1..NumCols(mA) :
            (IsNum(mA[i][j]) /\ Sgn(mA[i][j]) = 0)
                => (IsNum(ret[1][1][i][j]) /\ Sgn(ret[1][1][i][j]) = 0)

(***************************************************************************)
(* Properties of the Leontief step.                                        *)
(***************************************************************************)
\* The product of two finite floats with its factors of two taken out: equal
\* for equal products.
RECURSIVE OddForm(_, _)
OddForm(m, e) ==
    IF m = 0 THEN <<0, 0>>
    ELSE IF m % 2 = 0 THEN OddForm(m \div 2, e + 1) ELSE <<m, e>>
ExactProduct(x, y) == OddForm(x[2] * y[2], x[3] + y[3])

\* The 2 x 2 matrix of finite floats m has determinant zero, exactly.
Singular(m) ==
    /\ \A i \in 1..2 : \A j \in 1..2 : IsNum(m[i][j])
    /\ ExactProduct(m[1][1], m[2][2]) = ExactProduct(m[1][2], m[2][1])

\* C11: if mI - mA is singular, the Leontief step ends in LinAlgError: no
\* Leontief matrix is produced, the run stops and no workbook is written.
C11_SingularReported ==
    (pc \in {"raised", "inverted", "written"} /\ Singular(MatSub(eye(2), arr_mA)))
        => (pc = "raised" /\ exception = "LinAlgError"
            /\ mLeontief = <<>> /\ workbook = <<>>)

(***************************************************************************)
(* Properties of the deflation pipeline.                                   *)
(***************************************************************************)
\* The position p of the six index series.
IndexSlot(p) ==
    <<arrConsumBasePrices_Index[p], arrProductionTrans_Index[p], arr_vX_Index[p],
      arr_vX_Prod_Index[p], arr_Demand_Index[p], arr_VPB_Index[p]>>

\* The base-year slot of the six index series is 100 in every cell.
BaseIsHundred ==
    /\ \A i \in 1..nProducts : \A j \in 1..(nSectors + nColsDemand) :
          arrConsumBasePrices_Index[1][i][j] = Hundred
    /\ \A i \in 1..nSectors : \A j \in 1..nProducts : arrProductionTrans_Index[1][i][j] = Hundred
    /\ \A k \in 1..nSectors : arr_vX_Index[1][k] = Hundred
    /\ \A k \in 1..nProducts : arr_vX_Prod_Index[1][k] = Hundred
    /\ \A k \in 1..(nSectors + nColsDemand) : arr_Demand_Index[1][k] = Hundred
    /\ arr_VPB_Index[1] = Hundred

\* C12: in each of the six index series the entry of the first year is 100 in
\* every cell, during and after the loop over the years, and the part of the
\* loop that writes the series runs only for years after the first, so no
\* iteration writes the slot of the first year.
C12_BaseYearIndex ==
    /\ [](pc \in {"deflators", "balance", "recalc", "chain"} => nYear > nFirstYear)
    /\ []BaseIsHundred
    /\ [][IndexSlot(1)' = IndexSlot(1)]_vars

\* The loop has ended with an index of the last year that moved off 100.
C12_Witness ==
    /\ pc = "deflate"
    /\ BaseIsHundred
    /\ arr_VPB_Index[NumYears] # Hundred
    /\ arrProductionTrans_Index[NumYears] # arrProductionTrans_Index[1]

\* C13: the years are taken in ascending order, one by one; the chaining step
\* of the year y sets index[y] = deflator[y] * index[y-1] in the six series
\* from the index[y-1] then stored and leaves every other slot alone; no other
\* step changes an index series, so index[y-1] is final when index[y] is
\* computed and every slot is written once.
C13_ChainRecurrence ==
    /\ [][nYear' # nYear =>
             \/ nYear' = nYear + 1
             \/ (pc = "loop" /\ pc' = "deflate" /\ nYear = nLastYear + 1)]_vars
    /\ [][indexVars' # indexVars =>
             /\ pc = "chain" /\ pc' = "loop" /\ nYear' = nYear + 1
             /\ nYear \in (nFirstYear + 1)..nLastYear
             /\ \E p \in {Position(nYear)} :
                   /\ \A q \in 1..NumYears : q # p => IndexSlot(q)' = IndexSlot(q)
                   /\ IndexSlot(p)' =
                         <<MatMul(mConsumBasePrices_Deflator, arrConsumBasePrices_Index[p - 1]),
                           MatMul(mProductionTrans_Deflator, arrProductionTrans_Index[p - 1]),
                           VecMul(v_vX_Deflator, arr_vX_Index[p - 1]),
                           VecMul(v_vX_Prod_Deflator, arr_vX_Prod_Index[p - 1]),
                           VecMul(v_Demand_Deflator, arr_Demand_Index[p - 1]),
                           FMul(n_VPB_Deflator, arr_VPB_Index[p - 1])>>]_vars
    /\ [](pc \in {"loop", "deflators", "balance", "recalc", "chain"} =>
             \A q \in 2..NumYears :
                (q > Position(nYear) \/ (q = Position(nYear) /\ pc # "loop"))
                    => arr_VPB_Index[q] = Zero)

\* The loop has ended and the chain moved in each of two successive years.
C13_Witness ==
    /\ pc = "loop" /\ nYear = nLastYear + 1
    /\ arr_vX_Index[2] # arr_vX_Index[1]
    /\ arr_vX_Index[3] # arr_vX_Index[2]
    /\ arr_vX_Index[3] # VecMul(v_vX_Deflator, arr_vX_Index[1])

\* gras has returned None for the production or for the uses of the year.
BalanceFailed ==
    /\ pc = "recalc"
    /\ (mProductionTransLY_Adjusted = None \/ mConsumBasePriceLY_Adjusted = None)

\* C14: when gras fails in the year y, for the production or for the uses,
\* the next step ends the run in an exception; the index of the year y and of
\* the later years is not computed, nothing is deflated, converted or written,
\* and the run takes no further step.
C14_BalanceFailureFatal ==
    /\ [][BalanceFailed => (pc' = "raised" /\ exception' = "TypeError"
                            /\ indexVars' = indexVars)]_vars
    /\ [][pc = "raised" => FALSE]_vars
    /\ [](pc = "raised" /\ exception = "TypeError" =>
             /\ \A q \in Position(nYear)..NumYears :
                   /\ arr_VPB_Index[q] = Zero
                   /\ arr_vX_Index[q] = VecZeros(nSectors)
                   /\ arrProductionTrans_Index[q] = MatZeros(nSectors, nProducts)
             /\ arr_VPB_Deflated = <<>> /\ arrProductionTrans_Deflated = <<>>
             /\ arr_mA = <<>> /\ arr_mLeontief = <<>> /\ workbook = <<>>)

\* The run ended in the last year on a failed balance of the production, and
\* in another run on a failed balance of the uses.
C14_Witness ==
    /\ pc = "raised" /\ exception = "TypeError"
    /\ nYear = nLastYear
    /\ mProductionTransLY_Adjusted = None
    /\ mConsumBasePriceLY_Adjusted # None
    /\ stdout = NotConvergingMessage(DefaultMaxIter)
    /\ arr_VPB_Index[2] # Zero

\* The value of the markdown substitution in the cell (i, j) of the
\* production and of the uses: the share of the cell in its total at current
\* prices times the total at prices of the year before.
MarkdownProduction(i, j) ==
    FMul(FDiv(mProductionTrans[i][j], RowSums(mProductionTrans)[i]),
         RowSums(mProductionTransLY)[i])
MarkdownConsum(i, j) ==
    FMul(FDiv(mConsumBasePrice[i][j], ColSums(mConsumBasePrice)[j]),
         ColSums(mConsumBasePriceLY)[j])

\* C15 as stated: in the matrices handed to gras a cell whose deflator is 0,
\* infinite or NaN holds the markdown value and every other cell holds the
\* observed value.
C15_MarkdownDegenerateCells ==
    pc = "balance" =>
        /\ \A i \in 1..nSectors : \A j \in 1..nProducts :
              mProductionTransLY_Adjusted[i][j] =
                 IF \/ IsInf(mProductionTrans_Deflator[i][j])
                    \/ FEq(mProductionTrans_Deflator[i][j], Zero)
                    \/ IsNaN(mProductionTrans_Deflator[i][j])
                 THEN MarkdownProduction(i, j)
                 ELSE mProductionTransLY[i][j]
        /\ \A i \in 1..nProducts : \A j \in 1..(nSectors + nColsDemand) :
              mConsumBasePriceLY_Adjusted[i][j] =
                 IF \/ IsInf(mConsumBasePrices_Deflator[i][j])
                    \/ FEq(mConsumBasePrices_Deflator[i][j], Zero)
                    \/ IsNaN(mConsumBasePrices_Deflator[i][j])
                 THEN MarkdownConsum(i, j)
                 ELSE mConsumBasePriceLY[i][j]

\* C15 amended: a cell whose deflator is 0 or infinite holds the markdown
\* value; every other cell, the cells with a NaN deflator included, holds the
\* observed value.
C15_MarkdownZeroOrInfCells ==
    pc = "balance" =>
        /\ \A i \in 1..nSectors : \A j \in 1..nProducts :
              mProductionTransLY_Adjusted[i][j] =
                 IF \/ IsInf(mProductionTrans_Deflator[i][j])
                    \/ FEq(mProductionTrans_Deflator[i][j], Zero)
                 THEN MarkdownProduction(i, j)
                 ELSE mProductionTransLY[i][j]
        /\ \A i \in 1..nProducts : \A j \in 1..(nSectors + nColsDemand) :
              mConsumBasePriceLY_Adjusted[i][j] =
                 IF \/ IsInf(mConsumBasePrices_Deflator[i][j])
                    \/ FEq(mConsumBasePrices_Deflator[i][j], Zero)
                 THEN MarkdownConsum(i, j)
                 ELSE mConsumBasePriceLY[i][j]

\* Uses with a cell replaced by its markdown value, a cell with a NaN
\* deflator passed through and a cell with a regular deflator, and a
\* production with cells of deflator 0 replaced.
C15_Witness ==
    /\ pc = "balance"
    /\ \E i \in 1..nProducts : \E j \in 1..(nSectors + nColsDemand) :
          /\ IsInf(mConsumBasePrices_Deflator[i][j])
          /\ mConsumBasePriceLY_Adjusted[i][j] = MarkdownConsum(i, j)
          /\ mConsumBasePriceLY_Adjusted[i][j] # mConsumBasePriceLY[i][j]
    /\ \E i \in 1..nProducts : \E j \in 1..(nSectors + nColsDemand) :
          /\ IsNaN(mConsumBasePrices_Deflator[i][j])
          /\ mConsumBasePriceLY_Adjusted[i][j] = mConsumBasePriceLY[i][j]
    /\ \E i \in 1..nProducts : \E j \in 1..(nSectors + nColsDemand) :
          /\ IsNum(mConsumBasePrices_Deflator[i][j])
          /\ ~FEq(mConsumBasePrices_Deflator[i][j], Zero)
    /\ \E i \in 1..nSectors : \E j \in 1..nProducts :
          /\ FEq(mProductionTrans_Deflator[i][j], Zero)
          /\ mProductionTransLY_Adjusted[i][j] # mProductionTransLY[i][j]

\* The balance of the uses has failed while the production was balanced.
UsesBalanceFailed ==
    BalanceFailed /\ mProductionTransLY_Adjusted # None /\ mConsumBasePriceLY_Adjusted = None

\* No cell of the vector or matrix is NaN.
VecNoNaN(x) == \A k \in 1..Len(x) : ~IsNaN(x[k])
MatNoNaN(m) == \A i \in 1..NumRows(m) : VecNoNaN(m[i])

\* C16: when the chain of the year is computed no deflator of the five
\* structural series (uses, production, output by sector, output by product,
\* demand) is NaN, and in these series a cell of index[y] is NaN only if it is
\* NaN in index[y-1].
C16_NoNaNInChain ==
    /\ pc = "chain" =>
          /\ MatNoNaN(mConsumBasePrices_Deflator) /\ MatNoNaN(mProductionTrans_Deflator)
          /\ VecNoNaN(v_vX_Deflator) /\ VecNoNaN(v_vX_Prod_Deflator)
          /\ VecNoNaN(v_Demand_Deflator)
    /\ pc \in {"loop", "deflate"} =>
          \A q \in 2..NumYears : q < Position(nYear) \/ pc = "deflate" =>
             /\ \A i \in 1..nProducts : \A j \in 1..(nSectors + nColsDemand) :
                   IsNaN(arrConsumBasePrices_Index[q][i][j])
                      => IsNaN(arrConsumBasePrices_Index[q - 1][i][j])
             /\ \A i \in 1..nSectors : \A j \in 1..nProducts :
                   IsNaN(arrProductionTrans_Index[q][i][j])
                      => IsNaN(arrProductionTrans_Index[q - 1][i][j])
             /\ \A k \in 1..nSectors : IsNaN(arr_vX_Index[q][k]) => IsNaN(arr_vX_Index[q - 1][k])
             /\ \A k \in 1..nProducts :
                   IsNaN(arr_vX_Prod_Index[q][k]) => IsNaN(arr_vX_Prod_Index[q - 1][k])
             /\ \A k \in 1..(nSectors + nColsDemand) :
                   IsNaN(arr_Demand_Index[q][k]) => IsNaN(arr_Demand_Index[q - 1][k])

\* x is y within one part in 2^8 of y.
IsNear(x, y) ==
    FLe(FAbs(FSub(x, y)), FMul(<<"num", Pow2(MantBits - 1), -(MantBits - 1) - 8>>, FAbs(y)))

\* C17: once the double deflation is done, for every year the total of the
\* deflated production matrix, of the deflated output by sector and of the
\* deflated output by product equal the total output of the year deflated by
\* the aggregate index (a0, a2, a3 against a5), within rounding.
C17_DeflationConsistency ==
    pc \in {"sectors", "leontief", "excel", "written"} =>
        \A p \in 1..NumYears :
            /\ IsNear(a0[p], a5[p])
            /\ IsNear(a2[p], a5[p])
            /\ IsNear(a3[p], a5[p])

\* The current-price and last-year-price slots of the position p.
StoredSlots(p) ==
    <<arrConsumBasePrices[1][p], arrConsumBasePrices[2][p], arrProductionTrans[1][p],
      arrProductionTrans[2][p], arr_vX[1][p], arr_vX[2][p], arr_vX_Prod[1][p], arr_vX_Prod[2][p],
      arr_Demand[1][p], arr_Demand[2][p], arr_VPB[1][p], arr_VPB[2][p]>>
\* The deflated slots.
DeflatedSlots ==
    <<arrConsumBasePrices[3], arrProductionTrans[3], arr_vX[3], arr_vX_Prod[3], arr_Demand[3],
      arr_VPB[3]>>

\* C18: the slots of a year at current and at last-year prices change only
\* when the tables of that year are stored, a year is stored once, the calls
\* of gras change neither the tables of the year nor the accumulators, and the
\* deflated slot changes only when the deflated arrays are stored at the end.
C18_StoredResultsImmutable ==
    /\ [][\A p \in 1..NumYears : StoredSlots(p)' # StoredSlots(p) =>
             /\ pc = "loop" /\ pc' \in {"loop", "deflators"}
             /\ p = Position(nYear)
             /\ StoredSlots(p) = <<MatZeros(nProducts, nSectors + nColsDemand),
                                   MatZeros(nProducts, nSectors + nColsDemand),
                                   MatZeros(nSectors, nProducts), MatZeros(nSectors, nProducts),
                                   VecZeros(nSectors), VecZeros(nSectors),
                                   VecZeros(nProducts), VecZeros(nProducts),
                                   VecZeros(nSectors + nColsDemand),
                                   VecZeros(nSectors + nColsDemand),
                                   VecZeros(1), VecZeros(1)>>]_vars
    /\ [][pc = "balance" => (yearVars' = yearVars /\ accVars' = accVars)]_vars
    /\ [][DeflatedSlots' # DeflatedSlots => (pc = "deflate" /\ pc' = "sectors")]_vars

\* The workbook is written; the balanced production of the last year differs
\* from the stored one and the deflated slot from the current-price slot.
C18_Witness ==
    /\ pc = "written"
    /\ mProductionTransLY_Adjusted # arrProductionTrans[2][NumYears]
    /\ arrProductionTrans[3][NumYears] # arrProductionTrans[1][NumYears]
    /\ arrProductionTrans[2][NumYears] = mProductionTransLY

\* No cell of the deflator matrix is 0 or infinite.
NoDegenerateCell(deflator) ==
    \A i \in 1..NumRows(deflator) : \A j \in 1..NumCols(deflator) :
        ~(IsInf(deflator[i][j]) \/ FEq(deflator[i][j], Zero))

\* Two matrices of one shape whose cells agree within rounding.
MatNear(a, b) ==
    /\ NumRows(a) = NumRows(b) /\ NumCols(a) = NumCols(b)
    /\ \A i \in 1..NumRows(a) : \A j \in 1..NumCols(a) : IsNear(a[i][j], b[i][j])

\* gras returns the matrix it was handed, at the first iteration.
ProductionUntouched ==
    (pc = "balance" /\ NoDegenerateCell(mProductionTrans_Deflator)) =>
        \E g \in {gras(mProductionTransLY_Adjusted, RowSums(mProductionTransLY),
                       ColSums(mProductionTransLY), DefaultEpsilon, DefaultMaxIter)} :
            /\ g.ret[1] # None /\ MatNear(g.ret[1][1], mProductionTransLY)
            /\ g.ret[4] = Some(1)
ConsumUntouched ==
    (pc = "balance" /\ NoDegenerateCell(mConsumBasePrices_Deflator)) =>
        \E g \in {gras(mConsumBasePriceLY_Adjusted, RowSums(mConsumBasePriceLY),
                       ColSums(mConsumBasePriceLY), DefaultEpsilon, DefaultMaxIter)} :
            /\ g.ret[1] # None /\ MatNear(g.ret[1][1], mConsumBasePriceLY)
            /\ g.ret[4] = Some(1)

\* The deflators recomputed after the balance are those computed before it,
\* 0/0 made 1.
ProductionDeflatorKept ==
    (pc = "recalc" /\ pc' = "chain" /\ NoDegenerateCell(mProductionTrans_Deflator)) =>
        /\ MatNear(mProductionTransLY_Adjusted, mProductionTransLY)
        /\ MatNear(mProductionTrans_Deflator', MatNanToOne(mProductionTrans_Deflator))
ConsumDeflatorKept ==
    (pc = "recalc" /\ pc' = "chain" /\ NoDegenerateCell(mConsumBasePrices_Deflator)) =>
        /\ MatNear(mConsumBasePriceLY_Adjusted, mConsumBasePriceLY)
        /\ MatNear(mConsumBasePrices_Deflator', MatNanToOne(mConsumBasePrices_Deflator))

\* C29: in a year where no cell of the production matrix (of the matrix of
\* uses) has a deflator equal to 0 or infinite, gras returns the observed
\* matrix at prices of the year before, cell for cell within rounding, with
\* an iteration count of 1, and the deflators recomputed from it are the
\* deflators computed before the balance, 0/0 replaced by 1, within rounding.
C29_BalanceNoOp ==
    /\ [](ProductionUntouched /\ ConsumUntouched)
    /\ [][ProductionDeflatorKept /\ ConsumDeflatorKept]_vars

\* The deflators of a year are recomputed after a balance of uses that hold a
\* negative cell and no cell with a deflator of 0 or infinite; a deflator
\* differs from 1.
C29_Witness ==
    /\ pc = "chain"
    /\ mConsumBasePriceLY_Adjusted # None
    /\ MatNear(mConsumBasePriceLY_Adjusted, mConsumBasePriceLY)
    /\ NoDegenerateCell(mConsumBasePrices_Deflator)
    /\ NoDegenerateCell(mProductionTrans_Deflator)
    /\ \E i \in 1..nProducts : \E j \in 1..(nSectors + nColsDemand) :
          /\ Sgn(mConsumBasePriceLY[i][j]) = -1
          /\ mConsumBasePrices_Deflator[i][j] # One

\* The index is a finite number other than 0.
FiniteNonZero(index) == IsNum(index) /\ Sgn(index) # 0

\* x * 100 / vpb: the current-price value over the aggregate index.
NetValue(x, vpb) == FDiv(FMul(x, Hundred), vpb)

\* The deflated vector is the current-price vector over the aggregate index of
\* the position p, in every cell whose own index is finite and not 0.
NetVec(deflated, current, index, p) ==
    \A k \in 1..Len(current) :
        FiniteNonZero(index[k]) => IsNear(deflated[k], NetValue(current[k], arr_VPB_Index[p]))
NetMat(deflated, current, index, p) ==
    \A i \in 1..NumRows(current) : NetVec(deflated[i], current[i], index[i], p)

\* C30: once the double deflation is done, for every year and every cell whose
\* own chained index is finite and not 0, the deflated value is the
\* current-price value times 100 over the aggregate index of the year (within
\* rounding); for the first year every deflated matrix and vector is its
\* current-price counterpart (within rounding).
C30_NetEffectOfDoubleDeflation ==
    pc \in {"sectors", "leontief", "excel", "written"} =>
        /\ \A p \in 1..NumYears :
              /\ NetMat(arrConsumBasePrices_Deflated[p], arrConsumBasePrices[1][p],
                        arrConsumBasePrices_Index[p], p)
              /\ NetMat(arrProductionTrans_Deflated[p], arrProductionTrans[1][p],
                        arrProductionTrans_Index[p], p)
              /\ NetVec(arr_vX_Deflated[p], arr_vX[1][p], arr_vX_Index[p], p)
              /\ NetVec(arr_vX_Prod_Deflated[p], arr_vX_Prod[1][p], arr_vX_Prod_Index[p], p)
              /\ NetVec(arr_Demand_Deflated[p], arr_Demand[1][p], arr_Demand_Index[p], p)
              /\ IsNear(arr_VPB_Deflated[p], NetValue(FSum(arr_VPB[1][p]), arr_VPB_Index[p]))
        /\ MatNear(arrConsumBasePrices_Deflated[1], arrConsumBasePrices[1][1])
        /\ MatNear(arrProductionTrans_Deflated[1], arrProductionTrans[1][1])
        /\ MatNear(<<arr_vX_Deflated[1]>>, <<arr_vX[1][1]>>)
        /\ MatNear(<<arr_vX_Prod_Deflated[1]>>, <<arr_vX_Prod[1][1]>>)
        /\ MatNear(<<arr_Demand_Deflated[1]>>, <<arr_Demand[1][1]>>)
        /\ IsNear(arr_VPB_Deflated[1], FSum(arr_VPB[1][1]))

\* The deflation is done; in the last year a cell of the production has an
\* index other than 100 and than the aggregate index, and the deflated cell
\* is not the current-price cell.
C30_Witness ==
    /\ pc = "sectors"
    /\ \E i \in 1..nSectors : \E j \in 1..nProducts :
          /\ FiniteNonZero(arrProductionTrans_Index[NumYears][i][j])
          /\ arrProductionTrans_Index[NumYears][i][j] # Hundred
          /\ arrProductionTrans_Index[NumYears][i][j] # arr_VPB_Index[NumYears]
          /\ Sgn(arrProductionTrans[1][NumYears][i][j]) = 1
          /\ arrProductionTrans_Deflated[NumYears][i][j] # arrProductionTrans[1][NumYears][i][j]

\* The years of the list after the first year, the last year included, in
\* ascending order.
ListedYears ==
    SelectSeq([k \in 1..(NumYears - 1) |-> nFirstYear + k], LAMBDA y : y \in lYearsToWrite)

\* C26: the workbook holds one sheet for the first year and then, for every
\* listed year from the year after the first to the last year included, the
\* three sheets at current prices, at prices of the year before and deflated,
\* in this order; the lists of data, of sheet names, of row labels and of
\* column labels have the same length and the same order.
C26_DeflationOutputCoverage ==
    pc = "written" =>
        /\ Len(workbook.lSheetName) = 1 + 3 * Len(ListedYears)
        /\ Len(workbook.lDataSheet) = Len(workbook.lSheetName)
        /\ Len(workbook.lRowsLabel) = Len(workbook.lSheetName)
        /\ Len(workbook.lColsLabel) = Len(workbook.lSheetName)
        /\ workbook.lSheetName[1] = "MIP_" \o ToString(nFirstYear)
        /\ workbook.lDataSheet[1] = Slice_MIP(1, 1)
        /\ \A n \in 1..Len(ListedYears) : \A d \in 1..3 :
              /\ workbook.lSheetName[1 + 3 * (n - 1) + d] =
                    "MIP_" \o ToString(ListedYears[n]) \o "_" \o vMIPNames[d]
              /\ workbook.lDataSheet[1 + 3 * (n - 1) + d] = Slice_MIP(d, Position(ListedYears[n]))

(***************************************************************************)
(* Properties of the disaggregation.                                       *)
(***************************************************************************)
\* The lines a disaggregation is to produce: every line that is at no
\* position of the list once, in its order, and each line at a position
\* replaced by one line per entry, computed by entry(k).
RECURSIVE ExpectedFrom(_, _, _, _)
ExpectedFrom(lines, pos, entry(_), j) ==
    IF j > Len(lines) THEN <<>>
    ELSE (IF \E k \in 1..Len(pos) : pos[k] = j - 1
          THEN LET ks == SelectSeq([k \in 1..Len(pos) |-> k], LAMBDA k : pos[k] = j - 1)
               IN  [n \in 1..Len(ks) |-> entry(ks[n])]
          ELSE <<lines[j]>>)
         \o ExpectedFrom(lines, pos, entry, j + 1)

ExpectedLines(lines) ==
    LET entry(k) == ScaleLine(lines[vPosDisaggreg[k] + 1], vMultipliers[k])
    IN  ExpectedFrom(lines, vPosDisaggreg, entry, 1)

ExpectedNames ==
    LET entry(k) == vNamesDisaggreg[k]
    IN  ExpectedFrom(vNames, vPosDisaggreg, entry, 1)

\* C23: for every ascending list of positions column_sector_disaggregation
\* returns nNewIndex columns, the columns at no position copied in their
\* order and the k-th entry giving the column vPosDisaggreg[k] times
\* vMultipliers[k]; row_product_disaggregation does the same on the rows.
C23_DisaggregationLayout ==
    /\ pc \in {"columns", "rows", "named"} =>
          /\ mNewColumns.exc = ""
          /\ Len(Columns(mNewColumns.val)) = nNewIndex
          /\ Columns(mNewColumns.val) = ExpectedLines(Columns(mArray))
    /\ pc \in {"rows", "named"} =>
          /\ mNewRows.exc = ""
          /\ Len(mNewRows.val) = nNewIndex
          /\ mNewRows.val = ExpectedLines(Columns(mArray))

\* C24: for every ascending list of positions name_disaggregation returns
\* nNewIndex names, the names at no position once and in their order and
\* each position replaced by the names of its entries.
C24_NameDisaggregation ==
    pc = "named" =>
        /\ vNewName.exc = ""
        /\ Len(vNewName.val) = nNewIndex
        /\ vNewName.val = ExpectedNames

\* The quantity a name of vNameGDP stands for, as gdp_calculation computes
\* it from the matrix.
Labelled(name) ==
    CASE name = "PIB pela otica do produto" ->
            nProducao(mMIPGeral, nSector) + nImpostos(mMIPGeral, nSector) - nCI(mMIPGeral, nSector)
      [] name = "Producao" -> nProducao(mMIPGeral, nSector)
      [] name = "Impostos" -> nImpostos(mMIPGeral, nSector)
      [] name = "Consumo Intermediario" -> nCI(mMIPGeral, nSector)
      [] name = "PIB pela otica da Renda" ->
            nRemunEmpregados(mMIPGeral, nSector) + nEOB_RM(mMIPGeral, nSector)
                + nImpLiqProdImport(mMIPGeral, nSector, nDimension)
      [] name = "Remuneracao dos empregados" -> nRemunEmpregados(mMIPGeral, nSector)
      [] name = "EOB + RM" -> nEOB_RM(mMIPGeral, nSector)
      [] name = "Impostos liquidos sobre a producao e importacao" ->
            nImpLiqProdImport(mMIPGeral, nSector, nDimension)
      [] name = "PIB pela otica da despesa" ->
            nExportTotal(mMIPGeral, nSector, nDimension)
                + nGovernConsum(mMIPGeral, nSector, nDimension)
                + nISFLSFConsum(mMIPGeral, nSector, nDimension)
                + nFamilyConsum(mMIPGeral, nSector, nDimension)
                + nFBCF(mMIPGeral, nSector, nDimension)
                + nColEstockVar(mMIPGeral, nSector, nDimension)
                - nimporTotal(mMIPGeral, nSector)
      [] name = "Consumo das Familias" -> nFamilyConsum(mMIPGeral, nSector, nDimension)
      [] name = "Consumo do Governo" -> nGovernConsum(mMIPGeral, nSector, nDimension)
      [] name = "Consumo das ISFLSF" -> nISFLSFConsum(mMIPGeral, nSector, nDimension)
      [] name = "FBCF" -> nFBCF(mMIPGeral, nSector, nDimension)
      [] name = "Variacao do estoque" -> nColEstockVar(mMIPGeral, nSector, nDimension)
      [] name = "exportacao de bens e servicos" -> nExportTotal(mMIPGeral, nSector, nDimension)
      [] name = "importacao de bens e servicos (-)" -> nimporTotal(mMIPGeral, nSector)

\* C25: gdp_calculation returns as many names as values and the k-th value is
\* the quantity the k-th name stands for; the value under the name of the
\* exports is the total of the exports and the value under the name of the
\* imports the total of the imports.
C25_GdpNamesLabelValues ==
    pc = "gdp returned" =>
        /\ Len(vGDP) = Len(vNameGDP)
        /\ \A k \in 1..Len(vNameGDP) : vGDP[k] = Labelled(vNameGDP[k])

(***************************************************************************)
(* Properties of the allocator and of the conversion.                      *)
(***************************************************************************)

\* The tolerance of a comparison of floats: 16 units in the last place of 1.
FloatTol == <<"num", Pow2(MantBits - 1), 6 - 2 * MantBits>>
\* x is y within FloatTol * (1 + |y|), as np.isclose measures.
IsClose(x, y) == FLe(FAbs(FSub(x, y)), FMul(FloatTol, FAdd(One, FAbs(y))))
\* Every cell of the matrix m is a finite number.
AllFinite(m) == \A i \in 1..NumRows(m) : \A j \in 1..NumCols(m) : IsNum(m[i][j])

\* C7: in the matrix returned by distribution_matrix_calcul, every row whose
\* total over intermediate consumption and final demand is non-zero sums to 1
\* (within float tolerance) and every row whose total is zero is all zeros,
\* rows of non-zero cells that cancel included; no cell is NaN or Inf.
C7_ShareLaw ==
    pc = "allocated" =>
        /\ mTotalConsum = Concatenate(mIntermConsum, mDemand)
        /\ AllFinite(mDistribution)
        /\ \A i \in 1..NumRows(mTotalConsum) :
              IF Sgn(FSum(mTotalConsum[i])) # 0
              THEN IsClose(FSum(mDistribution[i]), One)
              ELSE \A j \in 1..NumCols(mTotalConsum) : mDistribution[i][j] = Zero

\* The call has returned for a row of non-zero cells cancelling to a zero
\* total, now all zeros, and a row of total 3, whose shares are thirds.
C7_Witness ==
    /\ pc = "allocated"
    /\ \E i \in 1..2 :
          /\ Sgn(FSum(mTotalConsum[i])) = 0
          /\ \E j \in 1..3 : Sgn(mTotalConsum[i][j]) # 0
          /\ \A j \in 1..3 : mDistribution[i][j] = Zero
    /\ \E i \in 1..2 :
          /\ FSum(mTotalConsum[i]) = FromInt(3)
          /\ \A j \in 1..3 : Sgn(mTotalConsum[i][j]) = 1
          /\ IsClose(FSum(mDistribution[i]), One)

\* The sum over the excluded rows, and over the other rows, of column j of
\* the matrix returned by calculation_margin.
ExcludedSum(j) == FSum(Take(Column(mMatrixOutput, j - 1), EraseRows(vRowErase)))
OtherSum(j) ==
    FSum(Take(Column(mMatrixOutput, j - 1), KeptRows(NumRows(mMatrixOutput), EraseRows(vRowErase))))
\* nTotMargin: the sum of the supply-column entries of the excluded rows.
MarginPool == FSum(Take(Column(mMatrixInput, nColRef), EraseRows(vRowErase)))

C22_ZeroMarginPool ==
    (pc = "margined" /\ IsNum(MarginPool) /\ Sgn(MarginPool) = 0) =>
        \A i \in 1..NumRows(mMatrixOutput) : \A j \in 1..NumCols(mMatrixOutput) :
            /\ IsNum(mMatrixOutput[i][j])
            /\ IF PositionIn(EraseRows(vRowErase), i) # 0
               THEN Sgn(mMatrixOutput[i][j]) = 0
               ELSE mMatrixOutput[i][j] = FMul(mMatrixInput[i][nColRef + 1], mAlpha[i][j])

\* The call has returned for two excluded rows whose non-zero margins cancel
\* and another row with a non-zero allocation.
C22_Witness ==
    /\ pc = "margined" /\ Sgn(MarginPool) = 0
    /\ vRowErase[2] > vRowErase[1]
    /\ \E i \in 1..NumRows(mMatrixInput) :
          /\ PositionIn(EraseRows(vRowErase), i) # 0
          /\ Sgn(mMatrixInput[i][nColRef + 1]) # 0
          /\ \A j \in 1..NumCols(mMatrixOutput) : Sgn(mMatrixOutput[i][j]) = 0
    /\ \E i \in 1..NumRows(mMatrixInput) : \E j \in 1..NumCols(mMatrixOutput) :
          /\ PositionIn(EraseRows(vRowErase), i) = 0
          /\ Sgn(mMatrixOutput[i][j]) # 0

\* C9 as stated: every cell of the matrix returned by
\* distribution_matrix_calcul lies in [0, 1], flows that are negative included.
C9_SharesInUnitInterval ==
    pc = "allocated" =>
        \A i \in 1..NumRows(mDistribution) : \A j \in 1..NumCols(mDistribution) :
            FLe(Zero, mDistribution[i][j]) /\ FLe(mDistribution[i][j], One)

\* C9 amended: when no cell of the two flow matrices is negative, every cell
\* of the matrix returned by distribution_matrix_calcul lies in [0, 1].
C9_SharesInUnitIntervalNonNegativeFlows ==
    (pc = "allocated" /\ NonNegative(mTotalConsum)) =>
        \A i \in 1..NumRows(mDistribution) : \A j \in 1..NumCols(mDistribution) :
            FLe(Zero, mDistribution[i][j]) /\ FLe(mDistribution[i][j], One)

\* The call has returned for flows without a negative cell, with a share
\* strictly between 0 and 1 and a row of zero total.
C9_Witness ==
    /\ pc = "allocated" /\ NonNegative(mTotalConsum)
    /\ \E i \in 1..2 : \E j \in 1..3 :
          FLt(Zero, mDistribution[i][j]) /\ FLt(mDistribution[i][j], One)
    /\ \E i \in 1..2 : Sgn(FSum(mTotalConsum[i])) = 0

Produced(p) == Sgn(FSum(mProduction[p])) # 0

\* The column k of the products-by-columns table m, the cells of the products
\* that no sector makes left out.
ProducedColumn(m, k) ==
    FSum([p \in 1..NumRows(m) |-> IF Produced(p) THEN m[p][k] ELSE Zero])

\* Every product that is consumed is produced, and every sector that consumes
\* has a non-zero output.
NoZeroTotals ==
    /\ \A p \in 1..NumRows(mIC) :
          (\/ \E j \in 1..NumCols(mIC) : Sgn(mIC[p][j]) # 0
           \/ \E c \in 1..NumCols(mE) : Sgn(mE[p][c]) # 0) => Produced(p)
    /\ \A j \in 1..NumCols(mIC) :
          (\E p \in 1..NumRows(mIC) : Sgn(mIC[p][j]) # 0) => Sgn(vX[j]) # 0

C28_DroppedWitness ==
    /\ pc = "converted"
    /\ \E p \in 1..2 :
          /\ ~Produced(p)
          /\ Sgn(mE[p][1]) # 0
          /\ \E j \in 1..2 : Sgn(mIC[p][j]) # 0 /\ Sgn(vX[j]) # 0

(***************************************************************************)
(* The whole model: any one of the operations, from any of its inputs.     *)
(***************************************************************************)
Init ==
    InitGras \/ InitDist \/ InitMargin \/ InitConv \/ InitLeontief \/ InitDefl \/ InitDisagg
        \/ InitGdp

Next ==
    NextGras \/ NextDist \/ NextMargin \/ NextConv \/ NextLeontief \/ NextDefl \/ NextDisagg
        \/ NextGdp

Spec == Init /\ [][Next]_vars

====
